---- MODULE Spec2Model ----
(***************************************************************************)
(* A model of url2md's scrape machinery: the concurrency limiter           *)
(* (src/limit.js), the SSRF guard (src/security.js), the LRU result cache  *)
(* (src/cache.js), the browser pool (src/browser-pool.js) and the          *)
(* orchestrator extractOne (server.js).                                    *)
(*                                                                         *)
(* Node runs one callback at a time, so every action below is one          *)
(* synchronous run of code between two suspension points (await).          *)
(***************************************************************************)
EXTENDS Integers, Sequences, FiniteSets, TLC

(***************************************************************************)
(* Bounds of the model.                                                    *)
(***************************************************************************)
NTasks == 3
MaxArg == 2
NKeys == 3
MaxCap == 2
MaxClock == 2
Ttl == 1
NCallers == 2
NBrowsers == 2
MaxBudget == 2
NCalls == 2

Tasks == 1..NTasks

MaxOf(a, b) == IF a >= b THEN a ELSE b

SeqToSet(s) == {s[i] : i \in 1..Len(s)}

VARIABLES
  \* ---- Limit (src/limit.js) ----
  max,         \* this.max
  active,      \* this.active
  queue,       \* this.queue: the tasks not yet started, oldest first
  tstate,      \* per task: where its run() promise and its body stand
  behav,       \* per task: how fn() behaves when it is called
  waited,      \* history: tasks that were left in the queue by their run()
  maxSeen      \* history: the largest number of bodies executing at once

VARIABLES
  \* ---- LRUCache (src/cache.js) ----
  maxSize,     \* this.maxSize
  ttlMs,       \* this.ttlMs
  cmap,        \* this.map: the entries in insertion order, oldest first
  clock,       \* Date.now()
  lastOp,      \* the last cache operation called and what it returned
  recent       \* history: the keys by time of last use, least recent first

VARIABLES
  \* ---- preflightIsUrlAllowed (src/security.js) ----
  pfUrl,       \* the URL the call was given
  pfPc,        \* "idle", "dns" (awaiting dns.lookup) or "done"
  pfDns,       \* how dns.lookup settled, "none" when it was not called
  pfResult     \* the value the call returned

VARIABLES
  \* ---- browser pool (src/browser-pool.js) ----
  budget,        \* cfg.browserMaxRequests
  browser,       \* _browser: the current handle, NoBrowser for null
  requestCount,  \* _requestCount
  launching,     \* _launching: the launch promise, NoBrowser for null
  lstate,        \* per launch promise: "unused", "pending", "ok" or "err"
  bstate,        \* per browser process: "none", "alive", "closing" or "dead"
  cpc,           \* per getBrowser caller: "idle", "waiting", "got", "failed"
  cwait,         \* per caller: the launch promise its call returned
  cres,          \* per caller: the handle its call resolved with
  closePc,       \* closeBrowser(): "idle", "closing" (awaiting close()), "done"
  closeTarget    \* closeBrowser(): the browser it called close() on

VARIABLES
  \* ---- extractOne (server.js); call c runs in the limiter as task c ----
  exPc,        \* per call: "idle", "dns", "limiter" (awaiting run()), "done"
  exInput,     \* per call: its arguments (urlStr, opts)
  exStage,     \* per call: where urlToMarkdown stands, "fast", "browser", "over"
  exBody,      \* per call: the data urlToMarkdown returned, NoData if none
  exResult,    \* per call: the value extractOne returned
  exEffect,    \* history, per call: what it did to the cache
  exLast,      \* history, per key: the data of the last successful extraction
               \* since the key's entry was created
  exGood       \* history, per key: the successful extractions (data and
               \* time of writing) that are within the TTL and whose key
               \* has not left the map since

VARIABLES
  \* ---- history of the limiter's order ----
  runOrder,    \* the tasks in the order run() was called with them
  startOrder   \* the tasks in the order their bodies were started

VARIABLES
  \* ---- history of the pool's disconnect events ----
  discLog      \* the last disconnect event: "none", "current" or "stale"

VARIABLES
  \* ---- urlToMarkdown, one scrape (src/extract.js) ----
  scPc,        \* where the scrape stands
  scCtx,       \* the browser context of the scrape: "none", "open", "closed"
  scMain,      \* the navigation request: "none", "continued" or "aborted"
  scReq,       \* the last request the route handler was called with
  scCalls,     \* the calls the handler made on that route, in order
  scErr,       \* whether the try block was left by an exception
  scOut,       \* how urlToMarkdown settled: "none", "markdown" or "error"
  scAborted,   \* history: a sub-request of this scrape was aborted
  scFast,      \* history: tryFastFetch returned a result
  scAcquired,  \* history: the scrape called getBrowser
  scLeak       \* history: the blocked URLs a request was sent to

limitVars == <<max, active, queue, tstate, behav, waited, maxSeen>>

cacheVars == <<maxSize, ttlMs, cmap, clock, lastOp, recent>>

pfVars == <<pfUrl, pfPc, pfDns, pfResult>>

poolVars == <<budget, browser, requestCount, launching, lstate, bstate, cpc,
              cwait, cres, closePc, closeTarget>>

exVars == <<exPc, exInput, exStage, exBody, exResult, exEffect, exLast, exGood>>

orderVars == <<runOrder, startOrder>>

poolLogVars == <<discLog>>

VARIABLES
  \* ---- one URL string given to both guards (src/ssrf) ----
  gUrl,        \* the URL string
  gDns,        \* how the lookup of preflight settles
  gBlock,      \* what shouldBlockRequestUrl returned
  gPre         \* what preflightIsUrlAllowed resolved to

VARIABLES
  \* ---- POST /v2/scrape, one request (src/extract.js) ----
  hPc,         \* "idle", "preflight", "extract" or "responded"
  hBodyIn,     \* the request body
  hPre,        \* what preflightIsUrlAllowed resolved to for it
  hKind,       \* history: how the request ended
  hStatus,     \* the status of the response, 0 while there is none
  hBody        \* the body of the response

httpVars == <<hPc, hBodyIn, hPre, hKind, hStatus, hBody>>

VARIABLES
  \* ---- cacheKey, its last two calls (src/cache) ----
  ckA,         \* the last call: prefix, object, the string hashed, the key
  ckB          \* the call before it

keyVars == <<ckA, ckB>>

VARIABLES
  \* ---- sanitizeForLLM, one call (src/extract.js) ----
  sanPc,       \* "ready" before the call, "done" after it
  sanIn,       \* the children of body after `body.innerHTML = html`
  sanOut       \* the children of body when the function returns

sanVars == <<sanPc, sanIn, sanOut>>

VARIABLES
  \* ---- the whitespace tightening of the Markdown (src/extract.js) ----
  twPc,        \* "ready", "once" or "twice"
  twIn,        \* the string given to the step
  twOnce,      \* the step applied to it
  twTwice      \* the step applied to that

tightenVars == <<twPc, twIn, twOnce, twTwice>>

VARIABLES
  \* ---- history of the pool's use by scrapes ----
  cbusy,       \* per caller: its scrape has called getBrowser and not ended
  served       \* per browser: how often getBrowser has returned its handle

poolUseVars == <<cbusy, served>>

VARIABLES
  \* ---- two scrape requests for one URL, one after the other ----
  fmPc,        \* "first", "second" or "done"
  fmReq,       \* the two request bodies: formats and onlyMainContent
  fmStore,     \* the keys extractCache holds
  fmServed     \* where the data of the second request came from

formatVars == <<fmPc, fmReq, fmStore, fmServed>>

VARIABLES
  \* ---- history of the scrape's navigation ----
  navTarget    \* the targetUrl of the scrape: its URL and whether
               \* TRACKING_RE matches its text

navVars == <<navTarget>>

VARIABLES
  \* ---- a call of tryFastFetch ----
  ffPc,        \* "ready" or "returned"
  ffIn,        \* the URL and what fetch meets
  ffOut,       \* what the call returned
  ffThrew      \* whether the call rejected

fastVars == <<ffPc, ffIn, ffOut, ffThrew>>

VARIABLES
  \* ---- the worker process ----
  prEntry,     \* the script the worker runs: "extract.js" or "server.js"
  prState,     \* "running" or "exited"
  prCode,      \* the exit code, -1 while the process runs
  prLog,       \* the background errors logged, in order
  prServed     \* the number of requests answered

procVars == <<prEntry, prState, prCode, prLog, prServed>>

lastVars == <<formatVars, navVars, fastVars, procVars>>

\* The components added last; a specification of one of the others leaves
\* them alone.
laterVars == <<keyVars, sanVars, tightenVars, poolUseVars, lastVars>>

guardVars == <<gUrl, gDns, gBlock, gPre>>

scrapeVars == <<scPc, scCtx, scMain, scReq, scCalls, scErr, scOut, scAborted,
                scFast, scAcquired, scLeak>>

restVars == <<orderVars, poolLogVars, scrapeVars, guardVars, httpVars, laterVars>>

vars == <<limitVars, cacheVars, pfVars, poolVars, exVars, restVars>>

(***************************************************************************)
(* Limit                                                                   *)
(***************************************************************************)

\* constructor(max = 4): the default parameter
DefaultMax == 4

UndefinedArg == [kind |-> "undefined", val |-> 0]
NaNArg       == [kind |-> "nan", val |-> 0]
NumArg(v)    == [kind |-> "num", val |-> v]

\* What the constructor may be given: nothing, a non-numeric value, or a number.
CtorArgs == {UndefinedArg, NaNArg} \cup {NumArg(v) : v \in -1..MaxArg}

\* Number(max) || 1: NaN and 0 are falsy
NumberOr1(arg) ==
  LET v == IF arg.kind = "undefined" THEN DefaultMax ELSE arg.val
  IN  IF arg.kind = "nan" \/ v = 0 THEN 1 ELSE v

NoClampMax(arg) == IF arg.kind = "num" THEN arg.val ELSE NumberOr1(arg)

\* this.max = Math.max(1, Number(max) || 1)
ClampMax(arg) == MaxOf(1, NumberOr1(arg))

FullOffByOne(a, m) == a > m

\* _next(): if (this.active >= this.max) return;
Full(a, m) == a >= m

Running(ts) == {t \in Tasks : ts[t] = "running"}

LimitNextLifo(a, q, ts, bh, seen) ==
  IF Full(a, max) \/ q = <<>>
  THEN [active |-> a, queue |-> q, tstate |-> ts, maxSeen |-> seen]
  ELSE LET t == q[Len(q)]
           seen2 == MaxOf(seen, Cardinality(Running(ts)) + 1)
       IN  [active |-> a + 1, queue |-> SubSeq(q, 1, Len(q) - 1),
            tstate |-> [ts EXCEPT ![t] = "running"], maxSeen |-> seen2]

\* _next(), with the task it starts run up to its first suspension:
\*   task = this.queue.shift(); if (task) task();
\*   task(): this.active++; await fn() ...
\* A fn that throws synchronously is caught at once: reject(e), then the
\* finally block (this.active--; this._next()) runs in the same call.
RECURSIVE LimitNext(_, _, _, _, _)
LimitNext(a, q, ts, bh, seen) ==
  IF Full(a, max) \/ q = <<>>
  THEN [active |-> a, queue |-> q, tstate |-> ts, maxSeen |-> seen]
  ELSE LET t == Head(q)
           seen2 == MaxOf(seen, Cardinality(Running(ts)) + 1)
       IN  IF bh[t] = "sync_throw"
           THEN LimitNext(a, Tail(q), [ts EXCEPT ![t] = "rejected"], bh,
                          seen2)
           ELSE [active |-> a + 1, queue |-> Tail(q),
                 tstate |-> [ts EXCEPT ![t] = "running"],
                 maxSeen |-> seen2]

\* A run(fn) that pushes the task and leaves the start to a later _next()
LimitRunNoNext(t, b) ==
  /\ tstate[t] = "new"
  /\ behav' = [behav EXCEPT ![t] = b]
  /\ queue' = Append(queue, t)
  /\ tstate' = [tstate EXCEPT ![t] = "queued"]
  /\ waited' = waited \cup {t}
  /\ UNCHANGED <<max, active, maxSeen>>

\* run(fn): this.queue.push(task); this._next();
LimitRun(t, b) ==
  /\ tstate[t] = "new"
  /\ LET bh == [behav EXCEPT ![t] = b]
         r == LimitNext(active, Append(queue, t),
                        [tstate EXCEPT ![t] = "queued"], bh, maxSeen)
     IN  /\ behav' = bh
         /\ active' = r.active
         /\ queue' = r.queue
         /\ tstate' = r.tstate
         /\ maxSeen' = r.maxSeen
         /\ waited' = IF r.tstate[t] = "queued" THEN waited \cup {t} ELSE waited
  /\ UNCHANGED max

\* The promise fn() returned settles: the body has finished, and the
\* continuation of `await fn()` is queued as a microtask.
TaskBodySettles(t, ok) ==
  /\ tstate[t] = "running"
  /\ tstate' = [tstate EXCEPT ![t] = IF ok THEN "returned" ELSE "threw"]
  /\ UNCHANGED <<max, active, queue, behav, waited, maxSeen>>

LimitAfterAwaitLeak(t) ==
  /\ tstate[t] \in {"returned", "threw"}
  /\ LET ts == [tstate EXCEPT
                  ![t] = IF tstate[t] = "returned" THEN "resolved" ELSE "rejected"]
         r == IF tstate[t] = "returned"
              THEN LimitNext(active - 1, queue, ts, behav, maxSeen)
              ELSE [active |-> active, queue |-> queue, tstate |-> ts,
                    maxSeen |-> maxSeen]
     IN  /\ active' = r.active
         /\ queue' = r.queue
         /\ tstate' = r.tstate
         /\ maxSeen' = r.maxSeen
  /\ UNCHANGED <<max, behav, waited>>

LimitAfterAwaitNoNext(t) ==
  /\ tstate[t] \in {"returned", "threw"}
  /\ tstate' = [tstate EXCEPT
                  ![t] = IF tstate[t] = "returned" THEN "resolved" ELSE "rejected"]
  /\ active' = active - 1
  /\ UNCHANGED <<max, queue, behav, waited, maxSeen>>

\* The continuation: resolve(res) or reject(e), then
\*   finally { this.active--; this._next(); }
LimitAfterAwait(t) ==
  /\ tstate[t] \in {"returned", "threw"}
  /\ LET ts == [tstate EXCEPT
                  ![t] = IF tstate[t] = "returned" THEN "resolved" ELSE "rejected"]
         r == LimitNext(active - 1, queue, ts, behav, maxSeen)
     IN  /\ active' = r.active
         /\ queue' = r.queue
         /\ tstate' = r.tstate
         /\ maxSeen' = r.maxSeen
  /\ UNCHANGED <<max, behav, waited>>

InitLimitWith(arg) ==
  /\ max = ClampMax(arg)
  /\ active = 0
  /\ queue = <<>>
  /\ tstate = [t \in Tasks |-> "new"]
  /\ behav = [t \in Tasks |-> "async"]
  /\ waited = {}
  /\ maxSeen = 0

IdleLimit == InitLimitWith(NumArg(1))

(***************************************************************************)
(* LRUCache                                                                *)
(***************************************************************************)
CKeys == 1..NKeys

CValues == {"v1", "v2"}

Undefined == "undefined"

Keys(m) == {m[i].key : i \in 1..Len(m)}

\* this.map.get(key)
Entry(m, k) == CHOOSE e \in SeqToSet(m) : e.key = k

\* this.map.delete(key)
MapDelete(m, k) == SelectSeq(m, LAMBDA e : e.key # k)

ExpiredAtTtl(e, now) == now - e.ts >= ttlMs

\* Date.now() - entry.ts > this.ttlMs
Expired(e, now) == now - e.ts > ttlMs

CacheGetNoPromote(m, k, now) ==
  IF k \notin Keys(m) THEN [map |-> m, ret |-> Undefined]
  ELSE IF Expired(Entry(m, k), now)
       THEN [map |-> MapDelete(m, k), ret |-> Undefined]
       ELSE [map |-> m, ret |-> Entry(m, k).value]

CacheGetRefresh(m, k, now) ==
  IF k \notin Keys(m) THEN [map |-> m, ret |-> Undefined]
  ELSE IF Expired(Entry(m, k), now)
       THEN [map |-> MapDelete(m, k), ret |-> Undefined]
       ELSE [map |-> Append(MapDelete(m, k), [Entry(m, k) EXCEPT !.ts = now]),
             ret |-> Entry(m, k).value]

\* get(key): the map after the call and the value returned
CacheGet(m, k, now) ==
  IF k \notin Keys(m) THEN [map |-> m, ret |-> Undefined]
  ELSE IF Expired(Entry(m, k), now)
       THEN [map |-> MapDelete(m, k), ret |-> Undefined]
       ELSE [map |-> Append(MapDelete(m, k), Entry(m, k)),
             ret |-> Entry(m, k).value]

\* A set that keeps the entry a key already has
CacheSetKeepFirst(m, k, v, now) ==
  IF k \in Keys(m) THEN m
  ELSE Append(IF Len(m) >= maxSize /\ m # <<>> THEN Tail(m) ELSE m,
              [key |-> k, value |-> v, ts |-> now])

\* set(key, value): the map after the call.  this.map.keys().next().value is
\* undefined on an empty map, and deleting it removes nothing.
CacheSet(m, k, v, now) ==
  LET m1 == MapDelete(m, k)
      m2 == IF Len(m1) >= maxSize /\ m1 # <<>> THEN Tail(m1) ELSE m1
  IN  Append(m2, [key |-> k, value |-> v, ts |-> now])

\* has(key): this.get(key) !== undefined
CacheHas(m, k, now) ==
  LET r == CacheGet(m, k, now)
  IN  [map |-> r.map, ret |-> r.ret # Undefined]

Touch(r, k) == Append(SelectSeq(r, LAMBDA x : x # k), k)

\* What a call is remembered by: the operation, its arguments, what it
\* returned, whether the key had an entry before it, and the key it evicted.
Call(op, k, v, ret, had, ev) ==
  [op |-> op, key |-> k, val |-> v, ret |-> ret, had |-> had, evicted |-> ev]

NoKey == 0

CacheSetOp(k, v) ==
  LET m == CacheSet(cmap, k, v, clock)
      gone == Keys(cmap) \ Keys(m)
  IN  /\ cmap' = m
      /\ lastOp' = Call("set", k, v, Undefined, k \in Keys(cmap),
                        IF gone = {} THEN NoKey ELSE CHOOSE x \in gone : TRUE)
      /\ recent' = Touch(recent, k)
      /\ UNCHANGED <<maxSize, ttlMs, clock>>

CacheGetOp(k) ==
  LET r == CacheGet(cmap, k, clock)
  IN  /\ cmap' = r.map
      /\ lastOp' = Call("get", k, Undefined, r.ret, k \in Keys(cmap), NoKey)
      /\ recent' = IF r.ret # Undefined THEN Touch(recent, k) ELSE recent
      /\ UNCHANGED <<maxSize, ttlMs, clock>>

CacheHasOp(k) ==
  LET r == CacheHas(cmap, k, clock)
  IN  /\ cmap' = r.map
      /\ lastOp' = Call("has", k, Undefined, IF r.ret THEN "true" ELSE "false",
                        k \in Keys(cmap), NoKey)
      /\ recent' = IF r.ret THEN Touch(recent, k) ELSE recent
      /\ UNCHANGED <<maxSize, ttlMs, clock>>

\* clear(): this.map.clear()
CacheClearOp ==
  /\ cmap' = <<>>
  /\ lastOp' = Call("clear", NoKey, Undefined, Undefined, FALSE, NoKey)
  /\ UNCHANGED <<maxSize, ttlMs, clock, recent>>

\* Time passes between two calls.
Tick ==
  /\ clock < MaxClock
  /\ clock' = clock + 1
  /\ lastOp' = Call("tick", NoKey, Undefined, Undefined, FALSE, NoKey)
  /\ UNCHANGED <<maxSize, ttlMs, cmap, recent>>

InitCacheWith(cap, ttl) ==
  /\ maxSize = cap
  /\ ttlMs = ttl
  /\ cmap = <<>>
  /\ clock = 0
  /\ lastOp = Call("none", NoKey, Undefined, Undefined, FALSE, NoKey)
  /\ recent = <<>>

IdleCache == InitCacheWith(1, Ttl)

(***************************************************************************)
(* SSRF guard                                                              *)
(*                                                                         *)
(* A URL string is given by what new URL() makes of it: whether it parses, *)
(* its protocol, and its hostname.  A hostname is a DNS name (its labels,  *)
(* lower case, as the URL parser leaves them), an IPv4 literal (its four   *)
(* octets), an IPv6 literal (the range ipaddr.js gives it, and whether     *)
(* ipaddr.parse accepts the bracketed text u.hostname holds), or empty.    *)
(***************************************************************************)
NameHost(ls) ==
  [kind |-> "name", labels |-> ls, octets |-> <<>>, range |-> "", parses |-> FALSE]

V4Host(os) ==
  [kind |-> "ipv4", labels |-> <<>>, octets |-> os, range |-> "", parses |-> TRUE]

V6Host(r, os, ok) ==
  [kind |-> "ipv6", labels |-> <<>>, octets |-> os, range |-> r, parses |-> ok]

EmptyHost ==
  [kind |-> "empty", labels |-> <<>>, octets |-> <<>>, range |-> "", parses |-> FALSE]

NameHosts ==
  { NameHost(ls) : ls \in
      { <<"localhost">>, <<"ip6-localhost">>, <<"foo", "localhost">>,
        <<"bar", "local">>, <<"server", "internal">>, <<"wiki", "intranet">>,
        <<"box", "home">>, <<"svc", "lan">>, <<"ns", "corp">>, <<"a", "test">>,
        <<"a", "example">>, <<"a", "invalid">>, <<"example", "com">>,
        <<"internal">>, <<"localhost", "com">> } }

V4Samples ==
  { <<127, 0, 0, 1>>, <<10, 0, 0, 1>>, <<172, 16, 0, 1>>, <<172, 32, 0, 1>>,
    <<192, 168, 1, 1>>, <<169, 254, 1, 1>>, <<0, 0, 0, 0>>, <<240, 0, 0, 1>>,
    <<100, 64, 0, 1>>, <<8, 8, 8, 8>> }

V4Hosts == { V4Host(os) : os \in V4Samples }

V6Hosts ==
  { V6Host(r, <<>>, ok) :
      r \in {"loopback", "linkLocal", "uniqueLocal", "unspecified", "unicast"},
      ok \in BOOLEAN }
  \cup { V6Host("ipv4Mapped", os, ok) :
            os \in {<<127, 0, 0, 1>>, <<8, 8, 8, 8>>}, ok \in BOOLEAN }

Hosts == NameHosts \cup V4Hosts \cup V6Hosts \cup {EmptyHost}

Protocols == {"http:", "https:", "ftp:"}

Unparsable == [parsed |-> FALSE, protocol |-> "", host |-> EmptyHost]

Urls ==
  {Unparsable}
  \cup { [parsed |-> TRUE, protocol |-> p, host |-> h] :
           p \in Protocols, h \in Hosts \ {EmptyHost} }
  \cup { [parsed |-> TRUE, protocol |-> "file:", host |-> EmptyHost] }

Last(sq) == sq[Len(sq)]

\* h.endsWith("." + tld)
EndsWithLabel(h, tld) ==
  h.kind = "name" /\ Len(h.labels) >= 2 /\ Last(h.labels) = tld

\* isLocalHostname(hostname)
IsLocalHostname(h) ==
  \/ h.kind = "name" /\ h.labels = <<"localhost">>
  \/ h.kind = "name" /\ h.labels = <<"ip6-localhost">>
  \/ EndsWithLabel(h, "localhost")
  \/ EndsWithLabel(h, "local")
  \/ h.kind = "empty"

\* addr.range() of ipaddr.js for an IPv4 address
Ipv4Range(os) ==
  CASE os[1] = 0 -> "unspecified"
    [] os[1] = 10 -> "private"
    [] os[1] = 100 /\ os[2] \in 64..127 -> "carrierGradeNat"
    [] os[1] = 127 -> "loopback"
    [] os[1] = 169 /\ os[2] = 254 -> "linkLocal"
    [] os[1] = 172 /\ os[2] \in 16..31 -> "private"
    [] os[1] = 192 /\ os[2] = 168 -> "private"
    [] os[1] \in 224..239 -> "multicast"
    [] os[1] \in 240..255 -> "reserved"
    [] OTHER -> "unicast"

PrivateV4(os) ==
  Ipv4Range(os) \in {"loopback", "private", "linkLocal", "reserved", "unspecified"}

\* isPrivateIp(ip): false when ipaddr.parse throws
IsPrivateIp(h) ==
  IF ~h.parses THEN FALSE
  ELSE IF h.kind = "ipv6"
       THEN \/ h.range \in {"loopback", "linkLocal", "uniqueLocal"}
            \/ h.range = "ipv4Mapped" /\ PrivateV4(h.octets)
       ELSE PrivateV4(h.octets)

\* isIpLiteral(hostname)
IsIpLiteral(h) == h.parses

\* isProbablyPrivateHostname(hostname).  u.hostname holds an IPv6 literal
\* in brackets, so h === "::" matches no hostname of a URL.
IsProbablyPrivateHostname(h) ==
  \/ IsLocalHostname(h)
  \/ h.kind = "ipv4" /\ h.octets = <<0, 0, 0, 0>>
  \/ \E tld \in {"internal", "intranet", "home", "lan", "corp", "test",
                  "example", "invalid"} : EndsWithLabel(h, tld)
  \/ h.kind = "ipv4" /\ h.octets[1] = 10
  \/ h.kind = "ipv4" /\ h.octets[1] = 192 /\ h.octets[2] = 168
  \/ h.kind = "ipv4" /\ h.octets[1] = 172 /\ h.octets[2] \in 16..31

\* isHttpProtocol(u)
IsHttpProtocol(u) == u.protocol \in {"http:", "https:"}

\* How dns.lookup(hostname, {all: true}) may settle: it throws, or it
\* returns records of which some, or none, are private addresses.
DnsOutcomes == {"throws", "some_private", "all_public"}

ResolvesToPrivateFailOpen(d) == d = "some_private"

\* hostnameResolvesToPrivate(hostname), given how the lookup settled
ResolvesToPrivate(d) ==
  IF d = "throws" THEN TRUE ELSE d = "some_private"

Ok == [ok |-> TRUE, reason |-> ""]

Blocked(r) == [ok |-> FALSE, reason |-> r]

SyncReasonHostnameFirst(u) ==
  IF ~u.parsed THEN "invalid_url"
  ELSE IF ~IsHttpProtocol(u) THEN "unsupported_protocol"
  ELSE IF IsProbablyPrivateHostname(u.host) THEN "blocked_private_hostname"
  ELSE IF IsLocalHostname(u.host) THEN "blocked_localhost"
  ELSE IF IsIpLiteral(u.host) /\ IsPrivateIp(u.host) THEN "blocked_private_ip"
  ELSE "none"

\* preflightIsUrlAllowed(urlStr) up to its await: the reason it returns
\* without a lookup, "none" when it goes on to the lookup
SyncReason(u) ==
  IF ~u.parsed THEN "invalid_url"
  ELSE IF ~IsHttpProtocol(u) THEN "unsupported_protocol"
  ELSE IF IsLocalHostname(u.host) THEN "blocked_localhost"
  ELSE IF IsIpLiteral(u.host) /\ IsPrivateIp(u.host) THEN "blocked_private_ip"
  ELSE IF IsProbablyPrivateHostname(u.host) THEN "blocked_private_hostname"
  ELSE "none"

\* preflightIsUrlAllowed(urlStr), given how the lookup settles if it is made
Preflight(u, d) ==
  IF SyncReason(u) # "none" THEN Blocked(SyncReason(u))
  ELSE IF ResolvesToPrivate(d) THEN Blocked("blocked_private_resolution")
  ELSE Ok

PreflightCall(u) ==
  /\ pfPc = "idle"
  /\ pfUrl' = u
  /\ pfDns' = "none"
  /\ IF SyncReason(u) # "none"
     THEN pfPc' = "done" /\ pfResult' = Preflight(u, "none")
     ELSE pfPc' = "dns" /\ pfResult' = pfResult

PreflightDnsSettles(d) ==
  /\ pfPc = "dns"
  /\ pfDns' = d
  /\ pfPc' = "done"
  /\ pfResult' = Preflight(pfUrl, d)
  /\ UNCHANGED pfUrl

\* The caller takes the result; the next call may come.
PreflightReturn ==
  /\ pfPc = "done"
  /\ pfPc' = "idle"
  /\ UNCHANGED <<pfUrl, pfDns, pfResult>>

IdlePreflight ==
  /\ pfUrl = Unparsable
  /\ pfPc = "idle"
  /\ pfDns = "none"
  /\ pfResult = Ok

(***************************************************************************)
(* Browser pool                                                            *)
(*                                                                         *)
(* The k-th call of chromium.launch() and the browser it yields share the  *)
(* number k: launch promise k resolves with browser k.                     *)
(***************************************************************************)
Browsers == 1..NBrowsers

Callers == 1..NCallers

NoBrowser == 0

\* cfg.browserMaxRequests = Number(env) || 100: any number but 0
Budgets == {-1} \cup 1..MaxBudget

\* browser.close(): a live browser starts to shut down
CloseCalled(bs, b) == IF bs[b] = "alive" THEN [bs EXCEPT ![b] = "closing"] ELSE bs

NeverOverBudget(b, n) == FALSE

\* getBrowser(): if (_browser && _requestCount >= cfg.browserMaxRequests)
OverBudget(b, n) == b # NoBrowser /\ n >= budget

AlwaysLaunch(l) == TRUE

\* getBrowser(): if (!_launching)
MustLaunch(l) == l = NoBrowser

Unused == {l \in Browsers : lstate[l] = "unused"}

NextLaunch == CHOOSE l \in Unused : \A k \in Unused : l <= k

\* getBrowser(), up to its return; a caller whose earlier call has settled
\* may call again
GetBrowser(c) ==
  /\ cpc[c] # "waiting"
  /\ LET recycle == OverBudget(browser, requestCount)
         b1 == IF recycle THEN NoBrowser ELSE browser
         n1 == IF recycle THEN 0 ELSE requestCount
         bs1 == IF recycle THEN CloseCalled(bstate, browser) ELSE bstate
     IN  IF b1 # NoBrowser
         THEN /\ requestCount' = n1 + 1
              /\ browser' = b1
              /\ bstate' = bs1
              /\ cpc' = [cpc EXCEPT ![c] = "got"]
              /\ cres' = [cres EXCEPT ![c] = b1]
              /\ cwait' = [cwait EXCEPT ![c] = NoBrowser]
              /\ UNCHANGED <<launching, lstate>>
         ELSE /\ requestCount' = n1
              /\ browser' = b1
              /\ bstate' = bs1
              /\ IF MustLaunch(launching)
                 THEN /\ Unused # {}
                      /\ launching' = NextLaunch
                      /\ lstate' = [lstate EXCEPT ![NextLaunch] = "pending"]
                 ELSE UNCHANGED <<launching, lstate>>
              /\ cpc' = [cpc EXCEPT ![c] = "waiting"]
              /\ cwait' = [cwait EXCEPT ![c] = launching']
              /\ cres' = [cres EXCEPT ![c] = NoBrowser]
  /\ UNCHANGED <<budget, closePc, closeTarget>>

\* chromium.launch() resolves: _launch registers the disconnect listener and
\* returns b; then(b => { _browser = b; _requestCount = 1; _launching = null })
LaunchSucceeds(l) ==
  /\ lstate[l] = "pending"
  /\ lstate' = [lstate EXCEPT ![l] = "ok"]
  /\ bstate' = [bstate EXCEPT ![l] = "alive"]
  /\ browser' = l
  /\ requestCount' = 1
  /\ launching' = NoBrowser
  /\ UNCHANGED <<budget, cpc, cwait, cres, closePc, closeTarget>>

LaunchFailsSticky(l) ==
  /\ lstate[l] = "pending"
  /\ lstate' = [lstate EXCEPT ![l] = "err"]
  /\ UNCHANGED <<budget, browser, requestCount, launching, bstate, cpc, cwait,
                 cres, closePc, closeTarget>>

\* chromium.launch() rejects: catch(e => { _launching = null; throw e })
LaunchFails(l) ==
  /\ lstate[l] = "pending"
  /\ lstate' = [lstate EXCEPT ![l] = "err"]
  /\ launching' = NoBrowser
  /\ UNCHANGED <<budget, browser, requestCount, bstate, cpc, cwait, cres,
                 closePc, closeTarget>>

ResumeWithCurrent(c) == browser

\* return _launching: the caller's promise takes the launch promise's value
ResumeValue(c) == cwait[c]

\* The promise a caller got from getBrowser() settles.
CallerResumes(c) ==
  /\ cpc[c] = "waiting"
  /\ lstate[cwait[c]] \in {"ok", "err"}
  /\ IF lstate[cwait[c]] = "ok"
     THEN /\ cpc' = [cpc EXCEPT ![c] = "got"]
          /\ cres' = [cres EXCEPT ![c] = ResumeValue(c)]
     ELSE /\ cpc' = [cpc EXCEPT ![c] = "failed"]
          /\ cres' = cres
  /\ UNCHANGED <<budget, browser, requestCount, launching, lstate, bstate,
                 cwait, closePc, closeTarget>>

DisconnectedAny(b) ==
  /\ bstate[b] \in {"alive", "closing"}
  /\ bstate' = [bstate EXCEPT ![b] = "dead"]
  /\ browser' = NoBrowser
  /\ requestCount' = 0
  /\ UNCHANGED <<budget, launching, lstate, cpc, cwait, cres, closePc,
                 closeTarget>>

\* The browser process goes away, after close() or on its own;
\* b.on("disconnected", () => { if (_browser === b) { ... } })
Disconnected(b) ==
  /\ bstate[b] \in {"alive", "closing"}
  /\ bstate' = [bstate EXCEPT ![b] = "dead"]
  /\ IF browser = b
     THEN browser' = NoBrowser /\ requestCount' = 0
     ELSE UNCHANGED <<browser, requestCount>>
  /\ UNCHANGED <<budget, launching, lstate, cpc, cwait, cres, closePc,
                 closeTarget>>

\* closeBrowser(), up to its await: if (_browser) await _browser.close()
CloseBrowserCall ==
  /\ closePc = "idle"
  /\ IF browser # NoBrowser
     THEN /\ closePc' = "closing"
          /\ closeTarget' = browser
          /\ bstate' = CloseCalled(bstate, browser)
     ELSE /\ closePc' = "done"
          /\ UNCHANGED <<closeTarget, bstate>>
  /\ UNCHANGED <<budget, browser, requestCount, launching, lstate, cpc, cwait,
                 cres>>

\* A closeBrowser() that clears the handle and leaves the counter
CloseBrowserReturnsKeepsCount ==
  /\ closePc = "closing"
  /\ bstate[closeTarget] = "dead"
  /\ closePc' = "done"
  /\ browser' = NoBrowser
  /\ UNCHANGED <<budget, requestCount, launching, lstate, bstate, cpc, cwait,
                 cres, closeTarget>>

\* closeBrowser(), after its await: _browser = null; _requestCount = 0
CloseBrowserReturns ==
  /\ closePc = "closing"
  /\ bstate[closeTarget] = "dead"
  /\ closePc' = "done"
  /\ browser' = NoBrowser
  /\ requestCount' = 0
  /\ UNCHANGED <<budget, launching, lstate, bstate, cpc, cwait, cres,
                 closeTarget>>

InitPoolWith(n) ==
  /\ budget = n
  /\ browser = NoBrowser
  /\ requestCount = 0
  /\ launching = NoBrowser
  /\ lstate = [l \in Browsers |-> "unused"]
  /\ bstate = [b \in Browsers |-> "none"]
  /\ cpc = [c \in Callers |-> "idle"]
  /\ cwait = [c \in Callers |-> NoBrowser]
  /\ cres = [c \in Callers |-> NoBrowser]
  /\ closePc = "idle"
  /\ closeTarget = NoBrowser

IdlePool == InitPoolWith(1)

\* The disconnect event, with what it met kept: the current handle, or a
\* browser that had been replaced or dropped before.
LoggedDisconnected(b) ==
  /\ Disconnected(b)
  /\ discLog' = IF browser = b THEN "current"
                ELSE IF browser # NoBrowser THEN "stale" ELSE discLog

(***************************************************************************)
(* extractOne                                                              *)
(*                                                                         *)
(* A call is given by the URL string, what new URL() makes of it, and the  *)
(* options that enter the cache key.  The data urlToMarkdown returns for   *)
(* a page is not determined by the arguments: the page may change between  *)
(* two fetches.                                                            *)
(***************************************************************************)
PublicUrl == [parsed |-> TRUE, protocol |-> "https:",
              host |-> NameHost(<<"example", "com">>)]

LocalUrl == [parsed |-> TRUE, protocol |-> "http:",
             host |-> NameHost(<<"localhost">>)]

ExInputs ==
  { [str |-> "https://example.com/a", url |-> PublicUrl,
     formats |-> <<"markdown">>, omc |-> TRUE],
    [str |-> "https://example.com/a", url |-> PublicUrl,
     formats |-> <<"markdown", "html">>, omc |-> TRUE],
    [str |-> "http://localhost/", url |-> LocalUrl,
     formats |-> <<"markdown">>, omc |-> TRUE] }

ExData == {"d1", "d2"}

NoData == "none"

NoInput == [str |-> "", url |-> Unparsable, formats |-> <<>>, omc |-> TRUE]

\* { error, detail } or the data object
ErrorResult(e, detail) == [error |-> e, detail |-> detail, data |-> NoData]

DataResult(d) == [error |-> "", detail |-> "", data |-> d]

NoResult == [error |-> "", detail |-> "", data |-> NoData]

\* cacheKey("extract", {url, f: formats.join(","), omc}): a digest of the
\* three values, taken to be free of collisions on the inputs above
InputKey(inp) == <<"extract", inp.str, inp.formats, inp.omc>>

NeverCached(ret) == FALSE

\* if (cached) return cached;
Cached(ret) == ret # Undefined

CachesAnyOutcome(ok) == TRUE

\* extractCache.set(key, data) stands in the try block, after the await
CachesOutcome(ok) == ok

Calls == 1..NCalls

ExKeys == {InputKey(inp) : inp \in ExInputs}

\* The history of a key ends when its entry leaves the map.
Forget(good, m0, m1) ==
  [k \in ExKeys |-> IF k \in Keys(m0) /\ k \notin Keys(m1) THEN {} ELSE good[k]]

ForgetLast(last, m0, m1) ==
  [k \in ExKeys |-> IF k \in Keys(m0) /\ k \notin Keys(m1) THEN NoData ELSE last[k]]

\* What extractCache.get(key) did to the map
GetEffect(m0, m1, k, now) ==
  IF m1 = m0 THEN "none"
  ELSE IF k \in Keys(m0) /\ Expired(Entry(m0, k), now) /\ m1 = MapDelete(m0, k)
       THEN "purged"
       ELSE IF Keys(m1) = Keys(m0) THEN "promoted" ELSE "changed"

\* extractOne(urlStr, opts) up to its first await: preflightIsUrlAllowed
\* returns without a lookup, or goes on to dns.lookup.  A call that has
\* returned makes room for the next one.
ExCall(c, inp) ==
  /\ exPc[c] \in {"idle", "done"}
  /\ exInput' = [exInput EXCEPT ![c] = inp]
  /\ IF SyncReason(inp.url) # "none"
     THEN /\ exPc' = [exPc EXCEPT ![c] = "done"]
          /\ exResult' = [exResult EXCEPT
                            ![c] = ErrorResult("blocked_url", SyncReason(inp.url))]
     ELSE /\ exPc' = [exPc EXCEPT ![c] = "dns"]
          /\ exResult' = [exResult EXCEPT ![c] = NoResult]
  /\ exStage' = [exStage EXCEPT ![c] = "fast"]
  /\ exBody' = [exBody EXCEPT ![c] = NoData]
  /\ exEffect' = [exEffect EXCEPT ![c] = "none"]
  /\ tstate' = [tstate EXCEPT ![c] = "new"]
  /\ UNCHANGED <<exLast, exGood>>
  /\ UNCHANGED <<max, active, queue, behav, waited, maxSeen, cacheVars>>

\* extractOne with the cache lookup placed before the preflight verdict is
\* acted on
ExPreflightSettlesCacheFirst(c, d) ==
  /\ exPc[c] = "dns"
  /\ LET pre == Preflight(exInput[c].url, d)
         k == InputKey(exInput[c])
         g == CacheGet(cmap, k, clock)
         r == LimitNext(active, Append(queue, c),
                        [tstate EXCEPT ![c] = "queued"], behav, maxSeen)
     IN  IF ~pre.ok
         THEN /\ exPc' = [exPc EXCEPT ![c] = "done"]
              /\ exResult' = [exResult EXCEPT
                                ![c] = ErrorResult("blocked_url", pre.reason)]
              /\ cmap' = g.map
              /\ exGood' = Forget(exGood, cmap, g.map)
              /\ exLast' = ForgetLast(exLast, cmap, g.map)
              /\ UNCHANGED <<exEffect, active, queue, tstate, maxSeen>>
         ELSE /\ cmap' = g.map
              /\ exEffect' = [exEffect EXCEPT
                                ![c] = GetEffect(cmap, g.map, k, clock)]
              /\ exGood' = Forget(exGood, cmap, g.map)
              /\ exLast' = ForgetLast(exLast, cmap, g.map)
              /\ IF Cached(g.ret)
                 THEN /\ exPc' = [exPc EXCEPT ![c] = "done"]
                      /\ exResult' = [exResult EXCEPT ![c] = DataResult(g.ret)]
                      /\ UNCHANGED <<active, queue, tstate, maxSeen>>
                 ELSE /\ exPc' = [exPc EXCEPT ![c] = "limiter"]
                      /\ exResult' = exResult
                      /\ active' = r.active
                      /\ queue' = r.queue
                      /\ tstate' = r.tstate
                      /\ maxSeen' = r.maxSeen
  /\ UNCHANGED <<exInput, exStage, exBody>>
  /\ UNCHANGED <<max, behav, waited, maxSize, ttlMs, clock, lastOp, recent>>

\* The lookup settles and extractOne runs on to its next await or return:
\* the preflight verdict, the cache lookup, and workLimiter.run(...), which
\* starts urlToMarkdown at once when a slot is free.
ExPreflightSettles(c, d) ==
  /\ exPc[c] = "dns"
  /\ LET pre == Preflight(exInput[c].url, d)
         k == InputKey(exInput[c])
         g == CacheGet(cmap, k, clock)
         r == LimitNext(active, Append(queue, c),
                        [tstate EXCEPT ![c] = "queued"], behav, maxSeen)
     IN  IF ~pre.ok
         THEN /\ exPc' = [exPc EXCEPT ![c] = "done"]
              /\ exResult' = [exResult EXCEPT
                                ![c] = ErrorResult("blocked_url", pre.reason)]
              /\ UNCHANGED <<cmap, exEffect, exGood, exLast>>
              /\ UNCHANGED <<active, queue, tstate, maxSeen>>
         ELSE /\ cmap' = g.map
              /\ exEffect' = [exEffect EXCEPT
                                ![c] = GetEffect(cmap, g.map, k, clock)]
              /\ exGood' = Forget(exGood, cmap, g.map)
              /\ exLast' = ForgetLast(exLast, cmap, g.map)
              /\ IF Cached(g.ret)
                 THEN /\ exPc' = [exPc EXCEPT ![c] = "done"]
                      /\ exResult' = [exResult EXCEPT ![c] = DataResult(g.ret)]
                      /\ UNCHANGED <<active, queue, tstate, maxSeen>>
                 ELSE /\ exPc' = [exPc EXCEPT ![c] = "limiter"]
                      /\ exResult' = exResult
                      /\ active' = r.active
                      /\ queue' = r.queue
                      /\ tstate' = r.tstate
                      /\ maxSeen' = r.maxSeen
  /\ UNCHANGED <<exInput, exStage, exBody>>
  /\ UNCHANGED <<max, behav, waited, maxSize, ttlMs, clock, lastOp, recent>>

FastOutcomes == {"article", "none", "throws"}

\* urlToMarkdown, the fast tier: tryFastFetch and, when it yields a page
\* with an article, the data made from it; otherwise the browser tier
ExFastFetch(c, o, d) ==
  /\ exPc[c] = "limiter"
  /\ tstate[c] = "running"
  /\ exStage[c] = "fast"
  /\ CASE o = "article" ->
            /\ tstate' = [tstate EXCEPT ![c] = "returned"]
            /\ exBody' = [exBody EXCEPT ![c] = d]
            /\ exStage' = [exStage EXCEPT ![c] = "over"]
       [] o = "none" ->
            /\ exStage' = [exStage EXCEPT ![c] = "browser"]
            /\ UNCHANGED <<tstate, exBody>>
       [] o = "throws" ->
            /\ tstate' = [tstate EXCEPT ![c] = "threw"]
            /\ exStage' = [exStage EXCEPT ![c] = "over"]
            /\ exBody' = exBody
  /\ UNCHANGED <<exPc, exInput, exResult, exEffect, exLast, exGood>>
  /\ UNCHANGED <<max, active, queue, behav, waited, maxSeen, cacheVars>>

\* urlToMarkdown, the browser tier: it returns the data or throws
ExBrowserPath(c, ok, d) ==
  /\ exPc[c] = "limiter"
  /\ tstate[c] = "running"
  /\ exStage[c] = "browser"
  /\ IF ok
     THEN /\ tstate' = [tstate EXCEPT ![c] = "returned"]
          /\ exBody' = [exBody EXCEPT ![c] = d]
     ELSE /\ tstate' = [tstate EXCEPT ![c] = "threw"]
          /\ exBody' = exBody
  /\ exStage' = [exStage EXCEPT ![c] = "over"]
  /\ UNCHANGED <<exPc, exInput, exResult, exEffect, exLast, exGood>>
  /\ UNCHANGED <<max, active, queue, behav, waited, maxSeen, cacheVars>>

\* extractOne after `await workLimiter.run(...)`: the try block goes on to
\* extractCache.set and returns the data, or the catch block returns the error
ExFinish(c) ==
  /\ exPc[c] = "limiter"
  /\ tstate[c] \in {"resolved", "rejected"}
  /\ LET ok == tstate[c] = "resolved"
         k == InputKey(exInput[c])
         stored == IF ok THEN exBody[c] ELSE "extraction_failed"
         m == IF CachesOutcome(ok) THEN CacheSet(cmap, k, stored, clock) ELSE cmap
         good == Forget(exGood, cmap, m)
         last == ForgetLast(exLast, cmap, m)
     IN  /\ cmap' = m
         /\ exResult' = [exResult EXCEPT
                           ![c] = IF ok THEN DataResult(exBody[c])
                                  ELSE ErrorResult("extraction_failed", "message")]
         /\ exEffect' = [exEffect EXCEPT
                           ![c] = IF CachesOutcome(ok) THEN "wrote" ELSE @]
         /\ exLast' = IF ok THEN [last EXCEPT ![k] = exBody[c]] ELSE last
         /\ exGood' = IF ok
                       THEN [good EXCEPT
                               ![k] = @ \cup {[data |-> exBody[c], at |-> clock]}]
                       ELSE good
  /\ exPc' = [exPc EXCEPT ![c] = "done"]
  /\ UNCHANGED <<exInput, exStage, exBody>>
  /\ UNCHANGED <<limitVars, maxSize, ttlMs, clock, lastOp, recent>>

\* Time passes: the successful extractions older than the TTL fall out of
\* the history.
ExTick ==
  /\ Tick
  /\ exGood' = [k \in ExKeys |->
                  {p \in exGood[k] : ~Expired([ts |-> p.at], clock + 1)}]
  /\ UNCHANGED <<exPc, exInput, exStage, exBody, exResult, exEffect, exLast>>

IdleExtract ==
  /\ exPc = [c \in Calls |-> "idle"]
  /\ exInput = [c \in Calls |-> NoInput]
  /\ exStage = [c \in Calls |-> "fast"]
  /\ exBody = [c \in Calls |-> NoData]
  /\ exResult = [c \in Calls |-> NoResult]
  /\ exEffect = [c \in Calls |-> "none"]
  /\ exLast = [k \in ExKeys |-> NoData]
  /\ exGood = [k \in ExKeys |-> {}]

(***************************************************************************)
(* The limiter with its order of submission and of admission on record     *)
(***************************************************************************)
\* The tasks of q, in the order of q, that a call of _next() took off it:
\* task() is called as soon as queue.shift() has returned it.
TakenFrom(q, ts) == SelectSeq(q, LAMBDA t : ts[t] # "queued")

\* run(fn), with the order of the calls and of the starts kept
OrderedRun(t, b) ==
  /\ LimitRun(t, b)
  /\ runOrder' = Append(runOrder, t)
  /\ startOrder' = startOrder \o TakenFrom(Append(queue, t), tstate')

OrderedBodySettles(t, ok) ==
  /\ TaskBodySettles(t, ok)
  /\ UNCHANGED orderVars

\* The continuation of a task, with the starts its _next() makes kept
OrderedAfterAwait(t) ==
  /\ LimitAfterAwait(t)
  /\ runOrder' = runOrder
  /\ startOrder' = startOrder \o TakenFrom(queue, tstate')

IdleOrder ==
  /\ runOrder = <<>>
  /\ startOrder = <<>>

IdlePoolLog == discLog = "none"

(***************************************************************************)
(* The SSRF guard of sub-requests, and one scrape                          *)
(***************************************************************************)

ShouldBlockNoHostnames(u) ==
  IF ~u.parsed THEN TRUE
  ELSE IF ~IsHttpProtocol(u) THEN TRUE
  ELSE IF IsLocalHostname(u.host) THEN TRUE
  ELSE IF IsIpLiteral(u.host) /\ IsPrivateIp(u.host) THEN TRUE
  ELSE FALSE

\* shouldBlockRequestUrl(requestUrl)
ShouldBlockRequestUrl(u) ==
  IF ~u.parsed THEN TRUE
  ELSE IF ~IsHttpProtocol(u) THEN TRUE
  ELSE IF IsLocalHostname(u.host) THEN TRUE
  ELSE IF IsIpLiteral(u.host) /\ IsPrivateIp(u.host) THEN TRUE
  ELSE IF IsProbablyPrivateHostname(u.host) THEN TRUE
  ELSE FALSE

BLOCKED_TYPES ==
  {"image", "font", "media", "stylesheet", "texttrack", "eventsource",
   "websocket", "manifest", "other"}

ResourceTypes == {"document", "script", "xhr", "image", "font", "other"}

\* The URLs the browser asks for: a public page, an embedded address of
\* the local network, a name of the local network, a data: URL.
RequestUrls ==
  { PublicUrl, LocalUrl,
    [parsed |-> TRUE, protocol |-> "http:", host |-> V4Host(<<127, 0, 0, 1>>)],
    [parsed |-> TRUE, protocol |-> "https:", host |-> V4Host(<<8, 8, 8, 8>>)],
    [parsed |-> TRUE, protocol |-> "http:", host |-> NameHost(<<"svc", "lan">>)],
    [parsed |-> TRUE, protocol |-> "data:", host |-> EmptyHost] }

\* A request: its URL, whether TRACKING_RE matches the URL's text, its
\* resource type, and whether it is the navigation request of page.goto.
Requests ==
  { [url |-> u, tracker |-> t, type |-> ty, main |-> m] :
      u \in RequestUrls, t \in BOOLEAN, ty \in ResourceTypes, m \in BOOLEAN }

NoRequest == [url |-> Unparsable, tracker |-> FALSE, type |-> "", main |-> FALSE]

RouteCallsNoSsrf(q) ==
  IF q.type \in BLOCKED_TYPES THEN <<"abort">>
  ELSE IF q.tracker THEN <<"abort">>
  ELSE <<"continue">>

\* The handler given to page.route: the calls it makes on the route
RouteCalls(q) ==
  IF ShouldBlockRequestUrl(q.url) THEN <<"abort">>
  ELSE IF q.type \in BLOCKED_TYPES THEN <<"abort">>
  ELSE IF q.tracker THEN <<"abort">>
  ELSE <<"continue">>

\* html.length < 2000 is refused by tryFastFetch
MinHtmlLength == 2000

HtmlLengths == {MinHtmlLength - 1, MinHtmlLength, 10240}

\* The URLs a scrape is started for: extractOne lets through only those
\* preflight allowed.
ScrapeTargets == {u \in RequestUrls : SyncReason(u) = "none"}

\* What fetch(url, {redirect: "follow"}) does: it throws (timeout, network
\* error), or it follows the redirects it is given, to the URLs `hops`, and
\* yields a response with a content type and a body of some length.
FastResponses ==
  { [throws |-> t, ctHtml |-> c, length |-> n, hops |-> h] :
      t \in BOOLEAN, c \in BOOLEAN, n \in HtmlLengths,
      h \in {<<>>} \cup { <<u>> : u \in RequestUrls } }

\* tryFastFetch(url, timeoutMs): whether it returns a result, not null
TryFastFetch(resp) ==
  IF resp.throws THEN FALSE
  ELSE IF ~resp.ctHtml THEN FALSE
  ELSE IF resp.length < MinHtmlLength THEN FALSE
  ELSE TRUE

\* The URLs fetch sent a GET to: the target, then each redirect
FetchedUrls(target, resp) == {target} \cup {resp.hops[i] : i \in 1..Len(resp.hops)}

\* urlToMarkdown is called.  The fast tier: tryFastFetch, and, if it has a
\* result, Readability, which finds an article or, twice, does not.  With
\* an article the data is returned; in every other case the browser tier
\* follows and createStealthContext begins with `await getBrowser()`.
ScBegin(target, resp, article) ==
  /\ scPc \in {"idle", "settled"}
  /\ scFast' = TryFastFetch(resp)
  /\ scAcquired' = ~(TryFastFetch(resp) /\ article)
  /\ scLeak' = {u \in FetchedUrls(target, resp) : ShouldBlockRequestUrl(u)}
  /\ scCtx' = "none"
  /\ scMain' = "none"
  /\ scReq' = NoRequest
  /\ scCalls' = <<>>
  /\ scErr' = FALSE
  /\ scAborted' = FALSE
  /\ IF TryFastFetch(resp) /\ article
     THEN scPc' = "settled" /\ scOut' = "markdown"
     ELSE scPc' = "getBrowser" /\ scOut' = "none"

\* A step of createStealthContext or of the try block that has no effect
\* on the context but may throw
ScStep(from) ==
  /\ scPc = from
  /\ UNCHANGED <<scCtx, scMain, scReq, scCalls, scAborted, scFast, scAcquired,
                 scLeak>>

\* await getBrowser(): on failure urlToMarkdown rejects, no context exists
ScGetBrowser(ok) ==
  /\ ScStep("getBrowser")
  /\ scErr' = scErr
  /\ IF ok THEN scPc' = "newContext" /\ scOut' = scOut
           ELSE scPc' = "settled" /\ scOut' = "error"

\* await browser.newContext(ctxOpts)
ScNewContext(ok) ==
  /\ scPc = "newContext"
  /\ UNCHANGED <<scMain, scReq, scCalls, scAborted, scErr, scFast, scAcquired,
                 scLeak>>
  /\ IF ok THEN scPc' = "addInitScript" /\ scCtx' = "open" /\ scOut' = scOut
           ELSE scPc' = "settled" /\ scCtx' = scCtx /\ scOut' = "error"

\* await context.addInitScript(...): createStealthContext has no handler
\* around it, so on failure urlToMarkdown rejects before its try block
ScAddInitScript(ok) ==
  /\ ScStep("addInitScript")
  /\ scErr' = scErr
  /\ IF ok THEN scPc' = "newPage" /\ scOut' = scOut
           ELSE scPc' = "settled" /\ scOut' = "error"

\* Inside try: await context.newPage(); await page.route(...)
ScNewPage(ok) ==
  /\ ScStep("newPage")
  /\ scOut' = scOut
  /\ IF ok THEN scPc' = "route" /\ scErr' = scErr
           ELSE scPc' = "finally" /\ scErr' = TRUE

ScRoute(ok) ==
  /\ ScStep("route")
  /\ scOut' = scOut
  /\ IF ok THEN scPc' = "goto" /\ scErr' = scErr
           ELSE scPc' = "finally" /\ scErr' = TRUE

\* The browser issues a request and the route handler is called with it.
\* The navigation request comes first, while page.goto is awaited; the
\* requests of the page follow it until the page is read.
ScRequest(q) ==
  /\ scPc \in {"goto", "waits", "content"}
  /\ IF q.main
     THEN scPc = "goto" /\ scMain = "none"
     ELSE scMain = "continued"
  /\ scReq' = q
  /\ scCalls' = RouteCalls(q)
  /\ scMain' = IF q.main
               THEN (IF RouteCalls(q) = <<"continue">> THEN "continued"
                     ELSE "aborted")
               ELSE scMain
  /\ scAborted' = (scAborted \/ (~q.main /\ RouteCalls(q) # <<"continue">>))
  /\ scLeak' = IF RouteCalls(q) = <<"continue">> /\ ShouldBlockRequestUrl(q.url)
               THEN scLeak \cup {q.url}
               ELSE scLeak
  /\ UNCHANGED <<scFast, scAcquired>>
  /\ UNCHANGED <<scPc, scCtx, scErr, scOut>>

\* await page.goto(...): it resolves only if the navigation request was
\* let through; a failure is thrown again as "Navigation failed"
ScGoto(ok) ==
  /\ ScStep("goto")
  /\ ok => scMain = "continued"
  /\ scOut' = scOut
  /\ IF ok THEN scPc' = "waits" /\ scErr' = scErr
           ELSE scPc' = "finally" /\ scErr' = TRUE

\* waitForLoadState, evaluate, waitForSelector: their errors are swallowed;
\* then the content-type test, which throws for application/pdf
ScWaits(pdf) ==
  /\ ScStep("waits")
  /\ scOut' = scOut
  /\ IF pdf THEN scPc' = "finally" /\ scErr' = TRUE
            ELSE scPc' = "content" /\ scErr' = scErr

\* await page.content() and the conversion to Markdown: return or throw
ScContent(ok) ==
  /\ ScStep("content")
  /\ scOut' = scOut
  /\ scPc' = "finally"
  /\ scErr' = ~ok

\* finally { await context.close().catch(() => {}) }: the context is gone
\* whether close() resolves or rejects; then urlToMarkdown settles
ScFinally ==
  /\ scPc = "finally"
  /\ scCtx' = "closed"
  /\ scPc' = "settled"
  /\ scOut' = IF scErr THEN "error" ELSE "markdown"
  /\ UNCHANGED <<scMain, scReq, scCalls, scErr, scAborted, scFast, scAcquired,
                 scLeak>>

IdleScrape ==
  /\ scPc = "idle"
  /\ scCtx = "none"
  /\ scMain = "none"
  /\ scReq = NoRequest
  /\ scCalls = <<>>
  /\ scErr = FALSE
  /\ scOut = "none"
  /\ scAborted = FALSE
  /\ scFast = FALSE
  /\ scAcquired = FALSE
  /\ scLeak = {}

\* The same string is given to shouldBlockRequestUrl and to
\* preflightIsUrlAllowed, whose lookup, if made, settles as d.
GuardBoth(u, d) ==
  /\ gUrl' = u
  /\ gDns' = d
  /\ gBlock' = ShouldBlockRequestUrl(u)
  /\ gPre' = Preflight(u, d)

IdleGuard ==
  /\ gUrl = Unparsable
  /\ gDns = "throws"
  /\ gBlock = ShouldBlockRequestUrl(Unparsable)
  /\ gPre = Preflight(Unparsable, "throws")

(***************************************************************************)
(* POST /v2/scrape                                                         *)
(***************************************************************************)

\* A request body: whether body.url is truthy, the URL string it holds, and
\* body.formats: absent, an array, or a truthy value that is no array.
Bodies ==
  { [hasUrl |-> TRUE, url |-> u, formats |-> f] :
      u \in Urls, f \in {"absent", "array", "other"} }
  \cup { [hasUrl |-> FALSE, url |-> Unparsable, formats |-> "absent"] }

NoBody == [hasUrl |-> FALSE, url |-> Unparsable, formats |-> "absent"]

\* The response body: { error, detail } or { success, data }
ErrorBody(e, detail) ==
  [error |-> e, detail |-> detail, success |-> FALSE, data |-> NoData]

SuccessBody(d) ==
  [error |-> "", detail |-> "", success |-> TRUE, data |-> d]

NoResponse == [error |-> "", detail |-> "", success |-> FALSE, data |-> NoData]

MissingUrl == "Missing URL in request body."

Unexpected == "An unexpected error occurred on the server."

ClientErrorsNoBlocked == {"invalid_url", "unsupported_protocol"}

\* The error kinds answered with 422
ClientErrors == {"blocked_url", "invalid_url", "unsupported_protocol"}

\* The handler from `const data = await extractOne(...)` on
Respond(data) ==
  IF data.error # ""
  THEN /\ hStatus' = (IF data.error \in ClientErrors THEN 422 ELSE 500)
       /\ hBody' = ErrorBody(data.error, data.detail)
  ELSE /\ hStatus' = 200
       /\ hBody' = SuccessBody(data.data)

\* The catch of the handler
RespondUnexpected ==
  /\ hStatus' = 500
  /\ hBody' = ErrorBody(Unexpected, "")

\* The request arrives: 400 without a url, else extractOne is awaited, and
\* it awaits preflightIsUrlAllowed
HttpPost(b) ==
  /\ hPc \in {"idle", "responded"}
  /\ hBodyIn' = b
  /\ hPre' = Ok
  /\ IF ~b.hasUrl
     THEN /\ hPc' = "responded"
          /\ hKind' = "missing_url"
          /\ hStatus' = 400
          /\ hBody' = ErrorBody(MissingUrl, "")
     ELSE /\ hPc' = "preflight"
          /\ hKind' = "none"
          /\ hStatus' = 0
          /\ hBody' = NoResponse

\* Preflight settles, its lookup, if made, as d.  A rejected URL is answered
\* at once; otherwise cacheKey joins opts.formats, which throws if that is
\* no array, and the cache is asked, and the limiter runs urlToMarkdown.
HttpPreflightSettles(d) ==
  /\ hPc = "preflight"
  /\ hPre' = Preflight(hBodyIn.url, d)
  /\ hBodyIn' = hBodyIn
  /\ IF ~Preflight(hBodyIn.url, d).ok
     THEN /\ hPc' = "responded"
          /\ hKind' = "rejected"
          /\ Respond(ErrorResult("blocked_url", Preflight(hBodyIn.url, d).reason))
     ELSE IF hBodyIn.formats = "other"
     THEN /\ hPc' = "responded"
          /\ hKind' = "unexpected"
          /\ RespondUnexpected
     ELSE /\ hPc' = "extract"
          /\ UNCHANGED <<hKind, hStatus, hBody>>

\* The message of the error urlToMarkdown throws for a PDF response
PdfMessage == "Unsupported content-type: application/pdf"

\* The messages of the errors urlToMarkdown throws
ThrownMessages == {"Navigation failed", PdfMessage}

\* The cache or urlToMarkdown yields the data d, or urlToMarkdown throws an
\* error with the message msg
HttpExtractSettles(ok, d, msg) ==
  /\ hPc = "extract"
  /\ hPc' = "responded"
  /\ UNCHANGED <<hBodyIn, hPre>>
  /\ IF ok
     THEN hKind' = "data" /\ Respond(DataResult(d))
     ELSE hKind' = "failed" /\ Respond(ErrorResult("extraction_failed", msg))

IdleHttp ==
  /\ hPc = "idle"
  /\ hBodyIn = NoBody
  /\ hPre = Ok
  /\ hKind = "none"
  /\ hStatus = 0
  /\ hBody = NoResponse

(***************************************************************************)
(* cacheKey                                                                *)
(*                                                                         *)
(* An object is the sequence of its properties in insertion order.  The    *)
(* value of a property is a number or an object of numbers.                *)
(***************************************************************************)
Num(n) == [kind |-> "num", num |-> n, props |-> <<>>]

Obj(ps) == [kind |-> "obj", num |-> 0, props |-> ps]

Prop(k, v) == [k |-> k, v |-> v]

\* The property names, in the order of Array.prototype.sort
KeyOrder == <<"a", "x", "z">>

TopKeys == {"a", "z"}

Values ==
  { Num(1), Num(2),
    Obj(<<Prop("x", Num(1))>>), Obj(<<Prop("x", Num(2))>>),
    Obj(<<Prop("a", Num(1))>>) }

Objects ==
  {<<>>}
  \cup { <<Prop(k, v)>> : k \in TopKeys, v \in Values }
  \cup { o \in { <<Prop(k1, v1), Prop(k2, v2)>> :
                   k1 \in TopKeys, k2 \in TopKeys, v1 \in Values, v2 \in Values } :
           o[1].k # o[2].k }

Prefixes == {"extract", "search"}

\* Object.keys(obj)
ObjectKeys(o) == [i \in 1..Len(o) |-> o[i].k]

NoSort(ks) == ks

\* ks.sort()
Sort(ks) == SelectSeq(KeyOrder, LAMBDA k : \E i \in 1..Len(ks) : ks[i] = k)

Has(o, k) == \E i \in 1..Len(o) : o[i].k = k

ValueOf(o, k) == o[CHOOSE i \in 1..Len(o) : o[i].k = k].v

\* JSON.stringify(o, list) for an object of numbers: the properties named
\* in the list, in the order of the list
StringifyFlat(o, list) ==
  LET named == SelectSeq(list, LAMBDA k : Has(o, k))
  IN  [i \in 1..Len(named) |-> Prop(named[i], ValueOf(o, named[i]))]

\* JSON.stringify(o, list): the list selects and orders the properties at
\* every depth
Stringify(o, list) ==
  LET named == SelectSeq(list, LAMBDA k : Has(o, k))
      Text(v) == IF v.kind = "num" THEN v
                 ELSE Obj(StringifyFlat(v.props, list))
  IN  [i \in 1..Len(named) |-> Prop(named[i], Text(ValueOf(o, named[i])))]

\* prefix + ":" + JSON.stringify(obj, Object.keys(obj).sort())
Raw(prefix, o) == [prefix |-> prefix, json |-> Stringify(o, Sort(ObjectKeys(o)))]

HexDigits == 0..15

\* A number that stands for the text: SHA-256 itself is not modelled
RECURSIVE Mix(_, _)
Mix(ps, acc) ==
  IF ps = <<>> THEN acc
  ELSE LET p == ps[1]
           kc == CHOOSE i \in 1..Len(KeyOrder) : KeyOrder[i] = p.k
           vc == IF p.v.kind = "num" THEN p.v.num
                 ELSE 3 + Mix(p.v.props, 5)
       IN  Mix(Tail(ps), (acc * 31 + kc * 7 + vc) % 65521)

\* crypto.createHash("sha256").update(raw).digest("hex"): 64 hex digits
\* that depend on the text alone
DigestHex(raw) ==
  LET m == Mix(raw.json, IF raw.prefix = "extract" THEN 11 ELSE 13)
  IN  [i \in 1..64 |-> ((m + 1) * (i + 6) + i * i) % 16]

\* cacheKey(prefix, obj)
CacheKeyOf(prefix, o) == SubSeq(DigestHex(Raw(prefix, o)), 1, 24)

KeyCall(prefix, o) ==
  [prefix |-> prefix, obj |-> o, raw |-> Raw(prefix, o),
   key |-> CacheKeyOf(prefix, o)]

\* cacheKey(prefix, o) is called
CacheKeyCall(prefix, o) ==
  /\ ckA' = KeyCall(prefix, o)
  /\ ckB' = ckA

IdleKey ==
  /\ ckA = KeyCall("extract", <<>>)
  /\ ckB = KeyCall("extract", <<>>)

(***************************************************************************)
(* sanitizeForLLM                                                          *)
(*                                                                         *)
(* A node is a text node or an element.  Of an element's attributes the    *)
(* model keeps href (absent, empty, relative, absolute, or not a URL), the *)
(* names of the others, and whether one of them makes the element match an *)
(* attribute selector of the removal list (class*='ad-' and the like).     *)
(***************************************************************************)
TextNode(t) ==
  [tag |-> "#text", text |-> t, href |-> "none", other |-> {},
   marked |-> FALSE, kids |-> <<>>]

Element(tag, at, kids) ==
  [tag |-> tag, text |-> "", href |-> at.href, other |-> at.other,
   marked |-> at.marked, kids |-> kids]

NoAttrs == [href |-> "none", other |-> {}, marked |-> FALSE]

AttrSamples ==
  { NoAttrs,
    [href |-> "relative", other |-> {"onclick"}, marked |-> FALSE],
    [href |-> "not a url", other |-> {"style", "id"}, marked |-> FALSE],
    [href |-> "", other |-> {"class"}, marked |-> TRUE] }

InlineTags == {"SPAN", "A", "SCRIPT", "FIGCAPTION", "EM"}

BlockTags == {"DIV", "P", "FIGURE"}

Inlines ==
  { TextNode("t1"), TextNode("t2") }
  \cup { Element(tag, at, <<TextNode("t3")>>) : tag \in InlineTags, at \in AttrSamples }

Blocks ==
  { Element(tag, at, kids) :
      tag \in BlockTags,
      at \in {NoAttrs, [href |-> "absolute", other |-> {"class"}, marked |-> FALSE]},
      kids \in { <<x>> : x \in Inlines } \cup { <<x, y>> : x \in Inlines, y \in Inlines } }

\* The trees given to the sanitiser
HtmlInputs ==
  { <<b>> : b \in Blocks }
  \cup { <<Element("SECTION", NoAttrs, <<b>>), TextNode("t4")>> : b \in Blocks }

IsElement(n) == n.tag # "#text"

\* new URL(href, baseUrl).href, or the original where that throws
ResolveHref(h) ==
  IF h = "relative" THEN "absolute" ELSE h

\* The first loop: every <a> with a non-empty href gets it resolved
RECURSIVE ResolveLinks(_)
ResolveLinks(ns) ==
  [i \in 1..Len(ns) |->
     LET n == ns[i]
     IN  [n EXCEPT !.href = IF n.tag = "A" /\ n.href \notin {"none", ""}
                            THEN ResolveHref(n.href) ELSE n.href,
                   !.kids = ResolveLinks(n.kids)]]

RemovedTags ==
  {"IMG", "PICTURE", "SOURCE", "VIDEO", "AUDIO", "IFRAME", "EMBED", "OBJECT",
   "CANVAS", "SVG", "SCRIPT", "STYLE", "NOSCRIPT", "FORM", "BUTTON", "INPUT",
   "SELECT", "TEXTAREA", "LINK", "NAV", "HEADER", "FOOTER", "ASIDE"}

InRemovalList(n) == n.tag \in RemovedTags \/ n.marked

\* querySelectorAll(<removal list>).forEach(el => el.remove())
RECURSIVE RemoveListed(_)
RemoveListed(ns) ==
  LET kept == SelectSeq(ns, LAMBDA n : ~InRemovalList(n))
  IN  [i \in 1..Len(kept) |-> [kept[i] EXCEPT !.kids = RemoveListed(kept[i].kids)]]

\* fig.querySelector("figcaption"): the first one in document order, as a
\* sequence of at most one node
RECURSIVE FirstCaption(_)
FirstCaption(ns) ==
  IF ns = <<>> THEN <<>>
  ELSE IF ns[1].tag = "FIGCAPTION" THEN <<ns[1]>>
  ELSE IF FirstCaption(ns[1].kids) # <<>> THEN FirstCaption(ns[1].kids)
  ELSE FirstCaption(Tail(ns))

\* The figure loop: a figure with a caption becomes a <p> holding a copy of
\* the caption's content, any other figure is removed
RECURSIVE ReplaceFigures(_)
ReplaceFigures(ns) ==
  IF ns = <<>> THEN <<>>
  ELSE LET n == ns[1]
           cap == FirstCaption(n.kids)
           here == IF n.tag # "FIGURE"
                   THEN <<[n EXCEPT !.kids = ReplaceFigures(n.kids)]>>
                   ELSE IF cap # <<>>
                   THEN <<Element("P", NoAttrs, cap[1].kids)>>
                   ELSE <<>>
       IN  here \o ReplaceFigures(Tail(ns))

Allowed ==
  {"H1", "H2", "H3", "H4", "H5", "H6", "P", "UL", "OL", "LI", "A",
   "PRE", "CODE", "BLOCKQUOTE", "TABLE", "THEAD", "TBODY", "TFOOT",
   "TR", "TH", "TD", "EM", "I", "STRONG", "B", "HR", "BR", "DL", "DT", "DD",
   "SUP", "SUB", "ABBR", "MARK", "DEL", "INS", "DETAILS", "SUMMARY"}

NoUnwrap(ns) == ns

\* The whitelist loop: every element whose tag is not allowed is replaced,
\* in place, by its children
RECURSIVE UnwrapAll(_)
UnwrapAll(ns) ==
  IF ns = <<>> THEN <<>>
  ELSE LET n == ns[1]
           here == IF IsElement(n) /\ n.tag \notin Allowed
                   THEN UnwrapAll(n.kids)
                   ELSE <<[n EXCEPT !.kids = UnwrapAll(n.kids)]>>
       IN  here \o UnwrapAll(Tail(ns))

\* The last loop: every attribute is removed, and href is put back on <a>
\* if it had a non-empty one
RECURSIVE StripAttributes(_)
StripAttributes(ns) ==
  [i \in 1..Len(ns) |->
     LET n == ns[i]
     IN  [n EXCEPT !.href = IF n.tag = "A" /\ n.href \notin {"none", ""}
                            THEN n.href ELSE "none",
                   !.other = {},
                   !.marked = FALSE,
                   !.kids = StripAttributes(n.kids)]]

\* sanitizeForLLM(html, baseUrl)
SanitizeForLLM(ns) ==
  StripAttributes(UnwrapAll(ReplaceFigures(RemoveListed(ResolveLinks(ns)))))

SanitizeCall ==
  /\ sanPc = "ready"
  /\ sanPc' = "done"
  /\ sanOut' = SanitizeForLLM(sanIn)
  /\ sanIn' = sanIn

IdleSanitize ==
  /\ sanPc = "done"
  /\ sanIn = <<>>
  /\ sanOut = <<>>

(***************************************************************************)
(* Whitespace tightening of the Markdown                                   *)
(*                                                                         *)
(* A string is the sequence of its characters.                             *)
(***************************************************************************)
MaxStr == 5

Chars == {"a", " ", "\r", "\n"}

Blank == {" ", "\t"}

WhiteSpace == {" ", "\t", "\r", "\n"}

RECURSIVE StringsOf(_)
StringsOf(n) ==
  IF n = 0 THEN {<<>>}
  ELSE LET shorter == StringsOf(n - 1)
       IN  shorter \cup { Append(str, c) : str \in {x \in shorter : Len(x) = n - 1},
                                           c \in Chars }

Strings == StringsOf(MaxStr)

\* The length of the longest prefix of str whose characters are all in cs
RECURSIVE RunLength(_, _)
RunLength(str, cs) ==
  IF str = <<>> \/ str[1] \notin cs THEN 0
  ELSE 1 + RunLength(Tail(str), cs)

Drop(str, n) == SubSeq(str, n + 1, Len(str))

\* .replace(/\r\n/g, "\n")
RECURSIVE CrLfToLf(_)
CrLfToLf(str) ==
  IF str = <<>> THEN <<>>
  ELSE IF Len(str) >= 2 /\ str[1] = "\r" /\ str[2] = "\n"
  THEN <<"\n">> \o CrLfToLf(Drop(str, 2))
  ELSE <<str[1]>> \o CrLfToLf(Tail(str))

\* .replace(/[ \t]+\n/g, "\n")
RECURSIVE DropTrailingBlanks(_)
DropTrailingBlanks(str) ==
  IF str = <<>> THEN <<>>
  ELSE LET n == RunLength(str, Blank)
       IN  IF n >= 1 /\ Len(str) > n /\ str[n + 1] = "\n"
           THEN <<"\n">> \o DropTrailingBlanks(Drop(str, n + 1))
           ELSE <<str[1]>> \o DropTrailingBlanks(Tail(str))

\* .replace(/\n{3,}/g, "\n\n")
RECURSIVE CollapseNewlines(_)
CollapseNewlines(str) ==
  IF str = <<>> THEN <<>>
  ELSE LET n == RunLength(str, {"\n"})
       IN  IF n >= 3
           THEN <<"\n", "\n">> \o CollapseNewlines(Drop(str, n))
           ELSE <<str[1]>> \o CollapseNewlines(Tail(str))

RECURSIVE TrimEnd(_)
TrimEnd(str) ==
  IF str = <<>> \/ str[Len(str)] \notin WhiteSpace THEN str
  ELSE TrimEnd(SubSeq(str, 1, Len(str) - 1))

\* .trim()
Trim(str) == TrimEnd(Drop(str, RunLength(str, WhiteSpace)))

\* The four calls chained on the Markdown
Tighten(str) == Trim(CollapseNewlines(DropTrailingBlanks(CrLfToLf(str))))

TightenFirst ==
  /\ twPc = "ready"
  /\ twPc' = "once"
  /\ twOnce' = Tighten(twIn)
  /\ UNCHANGED <<twIn, twTwice>>

TightenAgain ==
  /\ twPc = "once"
  /\ twPc' = "twice"
  /\ twTwice' = Tighten(twOnce)
  /\ UNCHANGED <<twIn, twOnce>>

IdleTighten ==
  /\ twPc = "twice"
  /\ twIn = <<>>
  /\ twOnce = <<>>
  /\ twTwice = <<>>

(***************************************************************************)
(* The pool as scrapes use it: a scrape calls getBrowser in                *)
(* createStealthContext and works on the browser it got until              *)
(* urlToMarkdown settles.                                                  *)
(***************************************************************************)
ServedAfter(c) ==
  IF cpc'[c] = "got" /\ cpc[c] # "got"
  THEN [served EXCEPT ![cres'[c]] = @ + 1]
  ELSE served

\* A scrape begins: createStealthContext calls getBrowser
ScrapeGetBrowser(c) ==
  /\ ~cbusy[c]
  /\ GetBrowser(c)
  /\ cbusy' = [cbusy EXCEPT ![c] = TRUE]
  /\ served' = IF cpc'[c] = "got"
               THEN [served EXCEPT ![cres'[c]] = @ + 1]
               ELSE served

\* Its getBrowser promise settles; on a rejection the scrape is over
ScrapeResumes(c) ==
  /\ CallerResumes(c)
  /\ cbusy' = [cbusy EXCEPT ![c] = (cpc'[c] = "got")]
  /\ served' = ServedAfter(c)

\* The scrape ends: its context is closed and urlToMarkdown settles
ScrapeEnds(c) ==
  /\ cbusy[c]
  /\ cpc[c] = "got"
  /\ cbusy' = [cbusy EXCEPT ![c] = FALSE]
  /\ UNCHANGED <<poolVars, served>>

IdlePoolUse ==
  /\ cbusy = [c \in Callers |-> FALSE]
  /\ served = [b \in Browsers |-> 0]

(***************************************************************************)
(* The extract cache key of a scrape request                               *)
(***************************************************************************)
FormatNames == <<"html", "links", "markdown">>

Absent == <<"absent">>

\* The lists of distinct format names, in every order
FormatLists ==
  {<<>>}
  \cup { <<FormatNames[i]>> : i \in 1..3 }
  \cup { f \in { <<FormatNames[i], FormatNames[j]>> : i \in 1..3, j \in 1..3 } :
           f[1] # f[2] }
  \cup { f \in { <<FormatNames[i], FormatNames[j], FormatNames[k]>> :
                   i \in 1..3, j \in 1..3, k \in 1..3 } :
           f[1] # f[2] /\ f[1] # f[3] /\ f[2] # f[3] }

ScrapeBodies ==
  [formats : FormatLists \cup {Absent}, onlyMainContent : {"true", "false", "undefined"}]

\* opts of the /v2/scrape handler: formats: body.formats || ["markdown"]
\* (an empty array is truthy), onlyMainContent: body.onlyMainContent !== false
ScrapeOpts(body) ==
  [formats |-> IF body.formats = Absent THEN <<"markdown">> ELSE body.formats,
   onlyMainContent |-> body.onlyMainContent # "false"]

\* fs.join(","): the names in the order of the list, commas between them
JoinComma(fs) ==
  IF fs = <<>> THEN <<>>
  ELSE [i \in 1..(2 * Len(fs) - 1) |->
          IF i % 2 = 1 THEN fs[(i + 1) \div 2] ELSE ","]

\* cacheKey("extract", {url, f, omc}) in extractOne: the text that is
\* digested, in the key order of the sorted replacer; the digest is taken
\* to be free of collisions
ExtractKey(urlStr, opts) ==
  [prefix |-> "extract",
   json |-> <<Prop("f", JoinComma(opts.formats)),
              Prop("omc", opts.onlyMainContent),
              Prop("url", urlStr)>>]

\* The first request: its extraction succeeds and extractCache.set stores it
FormatsFirst ==
  /\ fmPc = "first"
  /\ fmPc' = "second"
  /\ fmStore' = fmStore \cup {ExtractKey("https://example.com/a", ScrapeOpts(fmReq[1]))}
  /\ UNCHANGED <<fmReq, fmServed>>

\* The second request, within the TTL: extractCache.get(key) and, on a miss,
\* an extraction of its own
FormatsSecond ==
  /\ fmPc = "second"
  /\ fmPc' = "done"
  /\ LET key == ExtractKey("https://example.com/a", ScrapeOpts(fmReq[2]))
     IN  /\ fmServed' = IF key \in fmStore THEN "cache" ELSE "extraction"
         /\ fmStore' = fmStore \cup {key}
  /\ UNCHANGED fmReq

IdleFormats ==
  /\ fmPc = "done"
  /\ fmReq = <<[formats |-> Absent, onlyMainContent |-> "undefined"],
               [formats |-> Absent, onlyMainContent |-> "undefined"]>>
  /\ fmStore = {}
  /\ fmServed = "none"

\* The target of a scrape, kept for the navigation request of page.goto:
\* a URL and whether TRACKING_RE matches its text
NoTarget == [url |-> Unparsable, tracker |-> FALSE]

\* urlToMarkdown(targetUrl, opts) is called
NavBegin(target, trk, resp, article) ==
  /\ ScBegin(target, resp, article)
  /\ navTarget' = [url |-> target, tracker |-> trk]

\* The route handler is called; the request page.goto(targetUrl) issues is
\* the document request for targetUrl
NavRequest(q) ==
  /\ ScRequest(q)
  /\ q.main =>
       /\ q.url = navTarget.url
       /\ q.tracker = navTarget.tracker
       /\ q.type = "document"
  /\ UNCHANGED navTarget

IdleNav == navTarget = NoTarget

(***************************************************************************)
(* tryFastFetch                                                            *)
(*                                                                         *)
(* What fetch meets: the transport works, or fetch rejects (network error, *)
(* or the abort signal of the timeout), or the response arrives and the    *)
(* read of its body rejects.  The response is the final one, after the     *)
(* redirects: its URL, its status, its Content-Type header and its body,   *)
(* of which the model keeps the length.                                    *)
(***************************************************************************)
Transports == {"ok", "fetch_rejects", "timeout", "body_rejects"}

NoHeader == <<"null">>

\* Content-Type headers, as the parts they are written with
ContentTypes ==
  { NoHeader, <<"text/html">>, <<"text/html", "; charset=utf-8">>,
    <<"application/xhtml+xml">>, <<"application/pdf">>,
    <<"multipart/mixed; boundary=", "text/html">> }

StatusCodes == {200, 404}

FetchOutcomes ==
  [transport : Transports, contentType : ContentTypes, length : HtmlLengths,
   status : StatusCodes, finalUrl : ScrapeTargets]

Null == [kind |-> "null", html |-> 0, finalUrl |-> Unparsable, statusCode |-> 0]

\* { html, finalUrl: resp.url, statusCode: resp.status }
FastResult(r) ==
  [kind |-> "result", html |-> r.length, finalUrl |-> r.finalUrl,
   statusCode |-> r.status]

\* resp.headers.get("content-type") ?? ""
HeaderOrEmpty(h) == IF h = NoHeader THEN <<>> ELSE h

\* ct.includes("text/html")
IncludesTextHtml(ct) == \E i \in 1..Len(ct) : ct[i] = "text/html"

TooShortInclusive(n) == n <= MinHtmlLength

\* html.length < 2000
TooShort(n) == n < MinHtmlLength

\* tryFastFetch(url, timeoutMs): the value its promise resolves with; every
\* statement is inside try { } catch { return null }
FastFetch(r) ==
  IF r.transport \in {"fetch_rejects", "timeout"} THEN Null
  ELSE IF ~IncludesTextHtml(HeaderOrEmpty(r.contentType)) THEN Null
  ELSE IF r.transport = "body_rejects" THEN Null
  ELSE IF TooShort(r.length) THEN Null
  ELSE FastResult(r)

\* The call is made and settles
FastFetchCall ==
  /\ ffPc = "ready"
  /\ ffPc' = "returned"
  /\ ffOut' = FastFetch(ffIn)
  /\ ffThrew' = FALSE
  /\ UNCHANGED ffIn

IdleFast ==
  /\ ffPc = "returned"
  /\ ffIn = [transport |-> "timeout", contentType |-> NoHeader,
             length |-> MinHtmlLength, status |-> 200, finalUrl |-> PublicUrl]
  /\ ffOut = Null
  /\ ffThrew = FALSE

(***************************************************************************)
(* The worker process and its handlers of background errors                *)
(***************************************************************************)
MaxEvents == 4

Entries == {"extract.js", "server.js"}

\* A request arrives and is answered
ProcRequest ==
  /\ prState = "running"
  /\ prServed < MaxEvents
  /\ prServed' = prServed + 1
  /\ UNCHANGED <<prEntry, prState, prCode, prLog>>

\* process.on("unhandledRejection", (err) => log.error(...))
UnhandledRejection ==
  /\ prState = "running"
  /\ Len(prLog) < MaxEvents
  /\ prLog' = Append(prLog, "unhandledRejection")
  /\ UNCHANGED <<prEntry, prState, prCode, prServed>>

\* process.on("uncaughtException", ...): both scripts log; the handler of
\* extract.js goes on to process.exit(1)
UncaughtException ==
  /\ prState = "running"
  /\ Len(prLog) < MaxEvents
  /\ prLog' = Append(prLog, "uncaughtException")
  /\ IF prEntry = "extract.js"
     THEN prState' = "exited" /\ prCode' = 1
     ELSE UNCHANGED <<prState, prCode>>
  /\ UNCHANGED <<prEntry, prServed>>

IdleProc ==
  /\ prEntry = "extract.js"
  /\ prState = "running"
  /\ prCode = -1
  /\ prLog = <<>>
  /\ prServed = 0

IdleLast == IdleFormats /\ IdleNav /\ IdleFast /\ IdleProc

IdleLater == IdleKey /\ IdleSanitize /\ IdleTighten /\ IdlePoolUse /\ IdleLast

IdleRest ==
  IdleOrder /\ IdlePoolLog /\ IdleScrape /\ IdleGuard /\ IdleHttp /\ IdleLater

(***************************************************************************)
(* Specifications                                                          *)
(***************************************************************************)

\* The limiter alone, built from any constructor argument.
InitLimit ==
  (\E arg \in CtorArgs : InitLimitWith(arg)) /\ IdleCache /\ IdlePreflight /\ IdlePool /\ IdleExtract /\ IdleRest

NextLimit ==
  \/ \E t \in Tasks, b \in {"async", "sync_throw"} :
       LimitRun(t, b) /\ UNCHANGED <<cacheVars, pfVars, poolVars, exVars, restVars>>
  \/ \E t \in Tasks, ok \in BOOLEAN :
       TaskBodySettles(t, ok) /\ UNCHANGED <<cacheVars, pfVars, poolVars, exVars, restVars>>
  \/ \E t \in Tasks : LimitAfterAwait(t) /\ UNCHANGED <<cacheVars, pfVars, poolVars, exVars, restVars>>

SpecLimit == InitLimit /\ [][NextLimit]_vars

\* The event loop runs every queued continuation, and the claims about
\* completion assume that every admitted body finishes.
FairLimit ==
  /\ \A t \in Tasks :
       WF_vars((\E ok \in BOOLEAN : TaskBodySettles(t, ok)) /\ UNCHANGED <<cacheVars, pfVars, poolVars, exVars, restVars>>)
  /\ \A t \in Tasks : WF_vars(LimitAfterAwait(t) /\ UNCHANGED <<cacheVars, pfVars, poolVars, exVars, restVars>>)

SpecLimitFair == SpecLimit /\ FairLimit

\* The limiter, with the order of run() calls and of body starts on record.
InitLimitOrder ==
  (\E arg \in CtorArgs : InitLimitWith(arg))
  /\ IdleCache /\ IdlePreflight /\ IdlePool /\ IdleExtract /\ IdleRest

NextLimitOrder ==
  \/ \E t \in Tasks, b \in {"async", "sync_throw"} :
       OrderedRun(t, b) /\ UNCHANGED <<cacheVars, pfVars, poolVars, exVars, poolLogVars, scrapeVars, guardVars, httpVars, laterVars>>
  \/ \E t \in Tasks, ok \in BOOLEAN :
       OrderedBodySettles(t, ok) /\ UNCHANGED <<cacheVars, pfVars, poolVars, exVars, poolLogVars, scrapeVars, guardVars, httpVars, laterVars>>
  \/ \E t \in Tasks :
       OrderedAfterAwait(t) /\ UNCHANGED <<cacheVars, pfVars, poolVars, exVars, poolLogVars, scrapeVars, guardVars, httpVars, laterVars>>

SpecLimitOrder == InitLimitOrder /\ [][NextLimitOrder]_vars

\* The cache alone, of any capacity, under any sequence of calls.
InitCache ==
  (\E cap \in 0..MaxCap : InitCacheWith(cap, Ttl)) /\ IdleLimit /\ IdlePreflight /\ IdlePool /\ IdleExtract /\ IdleRest

NextCache ==
  \/ \E k \in CKeys, v \in CValues : CacheSetOp(k, v) /\ UNCHANGED <<limitVars, pfVars, poolVars, exVars, restVars>>
  \/ \E k \in CKeys : CacheGetOp(k) /\ UNCHANGED <<limitVars, pfVars, poolVars, exVars, restVars>>
  \/ \E k \in CKeys : CacheHasOp(k) /\ UNCHANGED <<limitVars, pfVars, poolVars, exVars, restVars>>
  \/ CacheClearOp /\ UNCHANGED <<limitVars, pfVars, poolVars, exVars, restVars>>
  \/ Tick /\ UNCHANGED <<limitVars, pfVars, poolVars, exVars, restVars>>

SpecCache == InitCache /\ [][NextCache]_vars

\* The preflight alone, called with any URL, under any outcome of the lookup.
InitPreflight == IdlePreflight /\ IdleLimit /\ IdleCache /\ IdlePool /\ IdleExtract /\ IdleRest

NextPreflight ==
  \/ \E u \in Urls : PreflightCall(u) /\ UNCHANGED <<limitVars, cacheVars, poolVars, exVars, restVars>>
  \/ \E d \in DnsOutcomes :
       PreflightDnsSettles(d) /\ UNCHANGED <<limitVars, cacheVars, poolVars, exVars, restVars>>
  \/ PreflightReturn /\ UNCHANGED <<limitVars, cacheVars, poolVars, exVars, restVars>>

SpecPreflight == InitPreflight /\ [][NextPreflight]_vars

\* The pool alone: callers of getBrowser, launches that succeed or fail,
\* browsers that disconnect, and closeBrowser, in any interleaving.
InitPool ==
  (\E n \in Budgets : InitPoolWith(n))
  /\ IdleLimit /\ IdleCache /\ IdlePreflight /\ IdleExtract /\ IdleRest

NextPool ==
  \/ \E c \in Callers : GetBrowser(c) /\ UNCHANGED <<limitVars, cacheVars, pfVars, exVars, restVars>>
  \/ \E l \in Browsers :
       LaunchSucceeds(l) /\ UNCHANGED <<limitVars, cacheVars, pfVars, exVars, restVars>>
  \/ \E l \in Browsers : LaunchFails(l) /\ UNCHANGED <<limitVars, cacheVars, pfVars, exVars, restVars>>
  \/ \E c \in Callers :
       CallerResumes(c) /\ UNCHANGED <<limitVars, cacheVars, pfVars, exVars, restVars>>
  \/ \E b \in Browsers :
       Disconnected(b) /\ UNCHANGED <<limitVars, cacheVars, pfVars, exVars, restVars>>
  \/ CloseBrowserCall /\ UNCHANGED <<limitVars, cacheVars, pfVars, exVars, restVars>>
  \/ CloseBrowserReturns /\ UNCHANGED <<limitVars, cacheVars, pfVars, exVars, restVars>>

SpecPool == InitPool /\ [][NextPool]_vars

\* The pool, with the kind of the last disconnect event on record.
NextPoolLog ==
  \/ \E c \in Callers :
       GetBrowser(c) /\ UNCHANGED <<limitVars, cacheVars, pfVars, exVars, restVars>>
  \/ \E l \in Browsers :
       LaunchSucceeds(l)
         /\ UNCHANGED <<limitVars, cacheVars, pfVars, exVars, restVars>>
  \/ \E l \in Browsers :
       LaunchFails(l) /\ UNCHANGED <<limitVars, cacheVars, pfVars, exVars, restVars>>
  \/ \E c \in Callers :
       CallerResumes(c)
         /\ UNCHANGED <<limitVars, cacheVars, pfVars, exVars, restVars>>
  \/ \E b \in Browsers :
       LoggedDisconnected(b)
         /\ UNCHANGED <<limitVars, cacheVars, pfVars, exVars, orderVars, scrapeVars, guardVars, httpVars, laterVars>>
  \/ CloseBrowserCall /\ UNCHANGED <<limitVars, cacheVars, pfVars, exVars, restVars>>
  \/ CloseBrowserReturns
       /\ UNCHANGED <<limitVars, cacheVars, pfVars, exVars, restVars>>

SpecPoolLog == InitPool /\ [][NextPoolLog]_vars

\* The pool under scrapes that hold the browser they got until they end.
otherThanPoolUse == <<limitVars, cacheVars, pfVars, exVars, orderVars,
                      poolLogVars, scrapeVars, guardVars, httpVars, keyVars,
                      sanVars, tightenVars, lastVars>>

NextPoolUse ==
  \/ \E c \in Callers : ScrapeGetBrowser(c) /\ UNCHANGED otherThanPoolUse
  \/ \E l \in Browsers :
       LaunchSucceeds(l) /\ UNCHANGED <<otherThanPoolUse, poolUseVars>>
  \/ \E l \in Browsers :
       LaunchFails(l) /\ UNCHANGED <<otherThanPoolUse, poolUseVars>>
  \/ \E c \in Callers : ScrapeResumes(c) /\ UNCHANGED otherThanPoolUse
  \/ \E c \in Callers : ScrapeEnds(c) /\ UNCHANGED otherThanPoolUse
  \/ \E b \in Browsers :
       Disconnected(b) /\ UNCHANGED <<otherThanPoolUse, poolUseVars>>
  \/ CloseBrowserCall /\ UNCHANGED <<otherThanPoolUse, poolUseVars>>
  \/ CloseBrowserReturns /\ UNCHANGED <<otherThanPoolUse, poolUseVars>>

SpecPoolUse == InitPool /\ [][NextPoolUse]_vars

\* One scrape after another, under every outcome of every awaited call and
\* any requests of the page.
InitScrape ==
  IdleLimit /\ IdleCache /\ IdlePreflight /\ IdlePool /\ IdleExtract /\ IdleRest

otherThanScrape == <<limitVars, cacheVars, pfVars, poolVars, exVars, orderVars,
                     poolLogVars, guardVars, httpVars, laterVars>>

NextScrape ==
  \/ \E target \in ScrapeTargets, resp \in FastResponses, article \in BOOLEAN :
       ScBegin(target, resp, article) /\ UNCHANGED otherThanScrape
  \/ \E ok \in BOOLEAN : ScGetBrowser(ok) /\ UNCHANGED otherThanScrape
  \/ \E ok \in BOOLEAN : ScNewContext(ok) /\ UNCHANGED otherThanScrape
  \/ \E ok \in BOOLEAN : ScAddInitScript(ok) /\ UNCHANGED otherThanScrape
  \/ \E ok \in BOOLEAN : ScNewPage(ok) /\ UNCHANGED otherThanScrape
  \/ \E ok \in BOOLEAN : ScRoute(ok) /\ UNCHANGED otherThanScrape
  \/ \E q \in Requests : ScRequest(q) /\ UNCHANGED otherThanScrape
  \/ \E ok \in BOOLEAN : ScGoto(ok) /\ UNCHANGED otherThanScrape
  \/ \E pdf \in BOOLEAN : ScWaits(pdf) /\ UNCHANGED otherThanScrape
  \/ \E ok \in BOOLEAN : ScContent(ok) /\ UNCHANGED otherThanScrape
  \/ ScFinally /\ UNCHANGED otherThanScrape

SpecScrape == InitScrape /\ [][NextScrape]_vars

\* Every URL under both guards, under every outcome of the lookup.
InitGuard ==
  IdleLimit /\ IdleCache /\ IdlePreflight /\ IdlePool /\ IdleExtract /\ IdleRest

NextGuard ==
  \E u \in Urls, d \in DnsOutcomes :
    /\ GuardBoth(u, d)
    /\ UNCHANGED <<limitVars, cacheVars, pfVars, poolVars, exVars, orderVars,
                   poolLogVars, scrapeVars, httpVars, laterVars>>

SpecGuard == InitGuard /\ [][NextGuard]_vars

\* One scrape request after another.
InitHttp ==
  IdleLimit /\ IdleCache /\ IdlePreflight /\ IdlePool /\ IdleExtract /\ IdleRest

otherThanHttp == <<limitVars, cacheVars, pfVars, poolVars, exVars, orderVars,
                   poolLogVars, scrapeVars, guardVars, laterVars>>

NextHttp ==
  \/ \E b \in Bodies : HttpPost(b) /\ UNCHANGED otherThanHttp
  \/ \E d \in DnsOutcomes : HttpPreflightSettles(d) /\ UNCHANGED otherThanHttp
  \/ \E ok \in BOOLEAN, d \in ExData, msg \in ThrownMessages :
       HttpExtractSettles(ok, d, msg) /\ UNCHANGED otherThanHttp

SpecHttp == InitHttp /\ [][NextHttp]_vars

\* Calls of cacheKey, one after another.
InitKey ==
  IdleLimit /\ IdleCache /\ IdlePreflight /\ IdlePool /\ IdleExtract /\ IdleRest

NextKey ==
  \E prefix \in Prefixes, o \in Objects :
    /\ CacheKeyCall(prefix, o)
    /\ UNCHANGED <<limitVars, cacheVars, pfVars, poolVars, exVars, orderVars,
                   poolLogVars, scrapeVars, guardVars, httpVars, sanVars,
                   tightenVars, poolUseVars, lastVars>>

SpecKey == InitKey /\ [][NextKey]_vars

\* sanitizeForLLM on every input tree.
InitSanitize ==
  /\ IdleLimit /\ IdleCache /\ IdlePreflight /\ IdlePool /\ IdleExtract
  /\ IdleOrder /\ IdlePoolLog /\ IdleScrape /\ IdleGuard /\ IdleHttp /\ IdleKey
  /\ IdleTighten /\ IdlePoolUse /\ IdleLast
  /\ sanPc = "ready"
  /\ sanIn \in HtmlInputs
  /\ sanOut = <<>>

NextSanitize ==
  /\ SanitizeCall
  /\ UNCHANGED <<limitVars, cacheVars, pfVars, poolVars, exVars, orderVars,
                 poolLogVars, scrapeVars, guardVars, httpVars, keyVars,
                 tightenVars, poolUseVars, lastVars>>

SpecSanitize == InitSanitize /\ [][NextSanitize]_vars

\* The tightening applied twice to every string.
InitTighten ==
  /\ IdleLimit /\ IdleCache /\ IdlePreflight /\ IdlePool /\ IdleExtract
  /\ IdleOrder /\ IdlePoolLog /\ IdleScrape /\ IdleGuard /\ IdleHttp /\ IdleKey
  /\ IdleSanitize /\ IdlePoolUse /\ IdleLast
  /\ twPc = "ready"
  /\ twIn \in Strings
  /\ twOnce = <<>>
  /\ twTwice = <<>>

otherThanTighten == <<limitVars, cacheVars, pfVars, poolVars, exVars, orderVars,
                      poolLogVars, scrapeVars, guardVars, httpVars, keyVars,
                      sanVars, poolUseVars, lastVars>>

NextTighten ==
  \/ TightenFirst /\ UNCHANGED otherThanTighten
  \/ TightenAgain /\ UNCHANGED otherThanTighten

SpecTighten == InitTighten /\ [][NextTighten]_vars

\* What every specification of the components before the last ones leaves
\* alone besides them
earlierVars == <<limitVars, cacheVars, pfVars, poolVars, exVars, orderVars,
                 poolLogVars, scrapeVars, guardVars, httpVars, keyVars,
                 sanVars, tightenVars, poolUseVars>>

IdleEarlier ==
  /\ IdleLimit /\ IdleCache /\ IdlePreflight /\ IdlePool /\ IdleExtract
  /\ IdleOrder /\ IdlePoolLog /\ IdleScrape /\ IdleGuard /\ IdleHttp /\ IdleKey
  /\ IdleSanitize /\ IdleTighten /\ IdlePoolUse

\* Two scrape requests for one URL, every pair of bodies.
InitFormats ==
  /\ IdleEarlier /\ IdleNav /\ IdleFast /\ IdleProc
  /\ fmPc = "first"
  /\ fmReq \in ScrapeBodies \X ScrapeBodies
  /\ fmStore = {}
  /\ fmServed = "none"

NextFormats ==
  \/ FormatsFirst /\ UNCHANGED <<earlierVars, navVars, fastVars, procVars>>
  \/ FormatsSecond /\ UNCHANGED <<earlierVars, navVars, fastVars, procVars>>

SpecFormats == InitFormats /\ [][NextFormats]_vars

\* Scrapes whose navigation request is the document request for the target.
InitNav == IdleEarlier /\ IdleLast

otherThanNav == <<limitVars, cacheVars, pfVars, poolVars, exVars, orderVars,
                  poolLogVars, guardVars, httpVars, keyVars, sanVars,
                  tightenVars, poolUseVars, formatVars, fastVars, procVars>>

NextNav ==
  \/ \E target \in ScrapeTargets, trk \in BOOLEAN, resp \in FastResponses,
        article \in BOOLEAN :
       NavBegin(target, trk, resp, article) /\ UNCHANGED otherThanNav
  \/ \E ok \in BOOLEAN : ScGetBrowser(ok) /\ UNCHANGED <<otherThanNav, navVars>>
  \/ \E ok \in BOOLEAN : ScNewContext(ok) /\ UNCHANGED <<otherThanNav, navVars>>
  \/ \E ok \in BOOLEAN : ScAddInitScript(ok) /\ UNCHANGED <<otherThanNav, navVars>>
  \/ \E ok \in BOOLEAN : ScNewPage(ok) /\ UNCHANGED <<otherThanNav, navVars>>
  \/ \E ok \in BOOLEAN : ScRoute(ok) /\ UNCHANGED <<otherThanNav, navVars>>
  \/ \E q \in Requests : NavRequest(q) /\ UNCHANGED otherThanNav
  \/ \E ok \in BOOLEAN : ScGoto(ok) /\ UNCHANGED <<otherThanNav, navVars>>
  \/ \E pdf \in BOOLEAN : ScWaits(pdf) /\ UNCHANGED <<otherThanNav, navVars>>
  \/ \E ok \in BOOLEAN : ScContent(ok) /\ UNCHANGED <<otherThanNav, navVars>>
  \/ ScFinally /\ UNCHANGED <<otherThanNav, navVars>>

SpecNav == InitNav /\ [][NextNav]_vars

\* tryFastFetch under every outcome of fetch.
InitFast ==
  /\ IdleEarlier /\ IdleFormats /\ IdleNav /\ IdleProc
  /\ ffPc = "ready"
  /\ ffIn \in FetchOutcomes
  /\ ffOut = Null
  /\ ffThrew = FALSE

NextFast ==
  FastFetchCall /\ UNCHANGED <<earlierVars, formatVars, navVars, procVars>>

SpecFast == InitFast /\ [][NextFast]_vars

\* A worker of either script under requests and background errors.
InitProc ==
  /\ IdleEarlier /\ IdleFormats /\ IdleNav /\ IdleFast
  /\ prEntry \in Entries
  /\ prState = "running"
  /\ prCode = -1
  /\ prLog = <<>>
  /\ prServed = 0

NextProc ==
  \/ ProcRequest /\ UNCHANGED <<earlierVars, formatVars, navVars, fastVars>>
  \/ UnhandledRejection /\ UNCHANGED <<earlierVars, formatVars, navVars, fastVars>>
  \/ UncaughtException /\ UNCHANGED <<earlierVars, formatVars, navVars, fastVars>>

SpecProc == InitProc /\ [][NextProc]_vars

\* The orchestrator: concurrent extractOne calls over the one limiter and the
\* one cache of the server.  The clock ticks in steps longer than the TTL.
InitExtract ==
  /\ \E n \in 1..2 : InitLimitWith(NumArg(n))
  /\ \E cap \in 1..MaxCap : InitCacheWith(cap, Ttl)
  /\ IdlePreflight /\ IdlePool /\ IdleExtract /\ IdleRest

NextExtract ==
  \/ \E c \in Calls, inp \in ExInputs : ExCall(c, inp) /\ UNCHANGED <<pfVars, poolVars, restVars>>
  \/ \E c \in Calls, d \in DnsOutcomes :
       ExPreflightSettles(c, d) /\ UNCHANGED <<pfVars, poolVars, restVars>>
  \/ \E c \in Calls, o \in FastOutcomes, d \in ExData :
       ExFastFetch(c, o, d) /\ UNCHANGED <<pfVars, poolVars, restVars>>
  \/ \E c \in Calls, ok \in BOOLEAN, d \in ExData :
       ExBrowserPath(c, ok, d) /\ UNCHANGED <<pfVars, poolVars, restVars>>
  \/ \E c \in Calls :
       LimitAfterAwait(c) /\ UNCHANGED <<cacheVars, pfVars, poolVars, exVars, restVars>>
  \/ \E c \in Calls : ExFinish(c) /\ UNCHANGED <<pfVars, poolVars, restVars>>
  \/ ExTick /\ UNCHANGED <<limitVars, pfVars, poolVars, restVars>>

SpecExtract == InitExtract /\ [][NextExtract]_vars

(***************************************************************************)
(* C1: with max = N, the number of task bodies executing at the same time  *)
(* never exceeds N, whatever the interleaving of run() calls and of        *)
(* successful or failing completions.                                      *)
(***************************************************************************)
C1_ConcurrencyBound ==
  /\ Cardinality(Running(tstate)) <= max
  /\ maxSeen <= max

C1_Witness ==
  /\ max = 2
  /\ Cardinality(Running(tstate)) = 2
  /\ queue # <<>>
  /\ maxSeen = 2

(***************************************************************************)
(* C10: whatever the constructor was given (max is clamped to >= 1, also   *)
(* for 0, a negative or a non-numeric argument), every task submitted with *)
(* run() eventually starts executing and its promise eventually settles,   *)
(* provided every admitted body eventually returns or throws.              *)
(***************************************************************************)
Submitted(t) == tstate[t] # "new"

Started(t) == tstate[t] \notin {"new", "queued"}

Settled(t) == tstate[t] \in {"resolved", "rejected"}

C10_AllTasksComplete ==
  /\ [](max >= 1)
  /\ \A t \in Tasks :
       Submitted(t) ~> (Started(t) /\ Settled(t))

C10_Witness ==
  /\ max = ClampMax(NumArg(0))
  /\ waited # {}
  /\ \A t \in Tasks : Settled(t)
  /\ \E t \in waited : tstate[t] = "resolved"
  /\ \E t \in Tasks : tstate[t] = "rejected"

(***************************************************************************)
(* C5: for an LRUCache of capacity maxSize, size <= maxSize after any      *)
(* sequence of set calls, interleaved with any get, has and clear calls.   *)
(***************************************************************************)
C5_SizeBound == Len(cmap) <= maxSize

(***************************************************************************)
(* C6: get(key) returns the stored value exactly when the key has an entry *)
(* and now - insertedAt <= ttl, insertedAt being the time of the last set  *)
(* of the key; has(key) says the same; neither gives any entry a new       *)
(* timestamp, so once ttl has passed since the last set both report the    *)
(* key absent.                                                             *)
(***************************************************************************)
Live(m, k, now) == k \in Keys(m) /\ now - Entry(m, k).ts <= ttlMs

C6_GetHonoursTtl ==
  [][ LET k == lastOp'.key
      IN  /\ lastOp'.op = "get" =>
               /\ lastOp'.ret =
                    IF Live(cmap, k, clock) THEN Entry(cmap, k).value ELSE Undefined
               /\ SeqToSet(cmap') \subseteq SeqToSet(cmap)
          /\ lastOp'.op = "has" =>
               /\ lastOp'.ret = IF Live(cmap, k, clock) THEN "true" ELSE "false"
               /\ SeqToSet(cmap') \subseteq SeqToSet(cmap)
          /\ lastOp'.op = "set" =>
               /\ Entry(cmap', k).ts = clock
               /\ SeqToSet(cmap') \ {Entry(cmap', k)} \subseteq SeqToSet(cmap)
    ]_vars

\* has() found the entry of a key set earlier and reported the key absent.
C6_Witness ==
  /\ lastOp.op = "has"
  /\ lastOp.had
  /\ lastOp.ret = "false"

(***************************************************************************)
(* C7: set(key, value) removes at most one other entry, and only when the  *)
(* key is not yet present and the cache is at capacity; the entry removed  *)
(* is then the least recently used one, recency being renewed by every set *)
(* and every successful get or has.  Setting a key that is present         *)
(* replaces its value, makes it the most recently used and evicts nothing. *)
(***************************************************************************)
C7_SetEvictsLru ==
  [][ lastOp'.op = "set" =>
        LET k == lastOp'.key
            gone == Keys(cmap) \ Keys(cmap')
            byUse == SelectSeq(recent, LAMBDA x : x \in Keys(cmap))
        IN  /\ Cardinality(gone) <= 1
            /\ gone # {} =>
                 /\ k \notin Keys(cmap)
                 /\ Len(cmap) >= maxSize
                 /\ gone = {Head(byUse)}
            /\ k \in Keys(cmap) => gone = {}
            /\ cmap'[Len(cmap')] = [key |-> k, value |-> lastOp'.val, ts |-> clock]
            /\ \A e \in SeqToSet(cmap) :
                 e.key \notin gone \cup {k} => e \in SeqToSet(cmap')
    ]_vars

\* A set of a new key into a full cache of two evicted the key used longest
\* ago and kept the other one.
C7_Witness ==
  /\ lastOp.op = "set"
  /\ ~lastOp.had
  /\ lastOp.evicted # NoKey
  /\ maxSize = 2
  /\ Len(cmap) = 2
  /\ recent = <<lastOp.evicted, cmap[1].key, lastOp.key>>

CheckOrder ==
  << "invalid_url", "unsupported_protocol", "blocked_localhost",
     "blocked_private_ip", "blocked_private_hostname",
     "blocked_private_resolution" >>

\* Whether a check, taken alone, matches the URL.  The checks after the
\* first read the parsed URL; the last one reads the lookup's outcome.
Matches(r, u, d) ==
  CASE r = "invalid_url" -> ~u.parsed
    [] r = "unsupported_protocol" -> u.parsed /\ u.protocol \notin {"http:", "https:"}
    [] r = "blocked_localhost" -> u.parsed /\ IsLocalHostname(u.host)
    [] r = "blocked_private_ip" ->
         u.parsed /\ IsIpLiteral(u.host) /\ IsPrivateIp(u.host)
    [] r = "blocked_private_hostname" ->
         u.parsed /\ IsProbablyPrivateHostname(u.host)
    [] r = "blocked_private_resolution" ->
         u.parsed /\ d # "none" /\ ResolvesToPrivate(d)

Matching(u, d) == {i \in 1..Len(CheckOrder) : Matches(CheckOrder[i], u, d)}

C4_FirstMatchWins ==
  pfPc = "done" =>
    LET hit == Matching(pfUrl, pfDns)
    IN  /\ pfResult.ok <=> hit = {}
        /\ ~pfResult.ok =>
             /\ hit # {}
             /\ \A i \in 1..Len(CheckOrder) :
                  pfResult.reason = CheckOrder[i]
                    <=> (i \in hit /\ \A j \in hit : i <= j)
        /\ pfResult.ok => pfDns = "all_public"

\* ftp://localhost: two later checks match as well, the protocol's wins.
C4_Witness ==
  /\ pfPc = "done"
  /\ pfResult = [ok |-> FALSE, reason |-> "unsupported_protocol"]
  /\ Cardinality(Matching(pfUrl, pfDns)) >= 3

(***************************************************************************)
(* C2: under concurrent cold starts (getBrowser calls that arrive while no *)
(* browser exists or while a launch is in flight) exactly one launch is    *)
(* invoked, and every one of those callers receives the same handle: at    *)
(* most one launch is ever pending, it is the one _launching holds, every  *)
(* caller still waiting on a pending launch waits on that one, and a       *)
(* caller that waited receives the browser its launch produced.            *)
(***************************************************************************)
Pending == {l \in Browsers : lstate[l] = "pending"}

C2_SingleLaunch ==
  /\ Cardinality(Pending) <= 1
  /\ Pending = IF launching = NoBrowser THEN {} ELSE {launching}
  /\ launching # NoBrowser => browser = NoBrowser
  /\ \A c \in Callers :
       /\ cpc[c] = "waiting" => cwait[c] # NoBrowser
       /\ (cpc[c] = "waiting" /\ cwait[c] \in Pending) => cwait[c] = launching
       /\ (cpc[c] = "got" /\ cwait[c] # NoBrowser) =>
             /\ cres[c] = cwait[c]
             /\ lstate[cwait[c]] = "ok"
  /\ \A c, d \in Callers :
       (cpc[c] = "got" /\ cpc[d] = "got" /\ cwait[c] # NoBrowser
          /\ cwait[c] = cwait[d]) => cres[c] = cres[d]

\* Two callers arrived cold, one launch was made, both hold its browser.
C2_Witness ==
  \E c, d \in Callers :
    /\ c # d
    /\ cpc[c] = "got" /\ cpc[d] = "got"
    /\ cwait[c] # NoBrowser /\ cwait[c] = cwait[d]
    /\ cres[c] = cres[d] /\ cres[c] # NoBrowser
    /\ Cardinality({l \in Browsers : lstate[l] # "unused"}) = 1

(***************************************************************************)
(* C8: error outcomes are never cached.  Every entry of the extract cache  *)
(* holds data that a urlToMarkdown call for its key returned, and a call   *)
(* that returned an error (its preflight failed or its extraction threw)   *)
(* wrote nothing to the cache: the one change such a call can make is to   *)
(* drop, at its lookup, the expired entry of its own key.                  *)
(***************************************************************************)
EntriesAreExtractions ==
  \A i \in 1..Len(cmap) :
    /\ cmap[i].value \in ExData
    /\ cmap[i].value = exLast[cmap[i].key]

Returned(c) == exPc[c] = "done"

Failed(c) == Returned(c) /\ exResult[c].error # ""

C8_ErrorsNotCached ==
  /\ EntriesAreExtractions
  /\ \A c \in Calls : Failed(c) => exEffect[c] \in {"none", "purged"}
  /\ \A c \in Calls :
       (Failed(c) /\ exResult[c].error = "blocked_url") => exEffect[c] = "none"

\* An extraction threw after its lookup had dropped the expired entry of
\* its key, while another key's entry stayed cached.
C8_Witness ==
  /\ cmap # <<>>
  /\ \E c \in Calls :
       /\ Failed(c)
       /\ exResult[c].error = "extraction_failed"
       /\ exEffect[c] = "purged"
  /\ \E c \in Calls : Failed(c) /\ exResult[c].error = "blocked_url"

\* C8 as it is worded: a call that returned an error left the cache as it was.
C8_FailedCallLeavesCacheUnchanged ==
  /\ EntriesAreExtractions
  /\ \A c \in Calls : Failed(c) => exEffect[c] = "none"

(***************************************************************************)
(* C9: when a call passes preflight while successful extractions of its    *)
(* key are on record (their entry within its TTL and never removed), it    *)
(* returns at once the data stored under the key, which is the data of the *)
(* most recent of them, without entering the limiter and without invoking  *)
(* urlToMarkdown.                                                          *)
(***************************************************************************)
\* Call c takes the step from the preflight verdict on, having passed it.
Lookup(c) ==
  /\ exPc[c] = "dns"
  /\ exPc'[c] # "dns"
  /\ exResult'[c].error # "blocked_url"

\* The step neither queued nor started anything.
LimiterUntouched(c) ==
  /\ tstate'[c] = "new"
  /\ exStage'[c] = "fast"
  /\ UNCHANGED <<active, queue>>

C9_HitReturnsLastWrite ==
  [][ \A c \in Calls :
        (Lookup(c) /\ exGood[InputKey(exInput[c])] # {}) =>
          /\ exPc'[c] = "done"
          /\ exResult'[c] = DataResult(exLast[InputKey(exInput[c])])
          /\ \E p \in exGood[InputKey(exInput[c])] :
               p.data = exLast[InputKey(exInput[c])]
          /\ LimiterUntouched(c) ]_vars

\* A call was answered from the cache after two overlapping extractions of
\* its key had both succeeded, with different data.
C9_Witness ==
  \E c \in Calls :
    /\ Returned(c)
    /\ tstate[c] = "new"
    /\ exResult[c].data \in ExData
    /\ exResult[c].data = exLast[InputKey(exInput[c])]
    /\ {p.data : p \in exGood[InputKey(exInput[c])]} = ExData

\* C9 as it is worded: the data of every earlier successful call comes back.
C9_HitReturnsEarlierData ==
  [][ \A c \in Calls :
        Lookup(c) =>
          \A p \in exGood[InputKey(exInput[c])] :
            /\ exPc'[c] = "done"
            /\ exResult'[c] = DataResult(p.data)
            /\ LimiterUntouched(c) ]_vars

(***************************************************************************)
(* C11: the limiter admits tasks strictly in the order of their run()      *)
(* calls: the bodies started so far are, in the order they were started,   *)
(* the first tasks of the order in which run() was called, and the queue   *)
(* holds the others in that order.                                         *)
(***************************************************************************)
C11_FifoAdmission ==
  /\ Len(startOrder) <= Len(runOrder)
  /\ startOrder = SubSeq(runOrder, 1, Len(startOrder))
  /\ queue = SubSeq(runOrder, Len(startOrder) + 1, Len(runOrder))
  /\ \A t \in Tasks :
       tstate[t] \notin {"new", "queued"} <=> t \in SeqToSet(startOrder)

\* Two tasks waited behind a running one and were then started in turn.
C11_Witness ==
  /\ max = 1
  /\ Len(startOrder) = 3
  /\ Cardinality(waited) = 2
  /\ startOrder = runOrder

(***************************************************************************)
(* C12: run(task) settles with the task's own outcome, and a failing task  *)
(* does not poison the limiter.  The promise resolves only after the body  *)
(* returned and rejects only after it threw (or rejected); a body that has *)
(* finished leads to nothing else.  The slots counted in `active` are      *)
(* exactly those of the admitted tasks whose continuation has not run yet, *)
(* whether they end well or not, and a task waits in the queue only while  *)
(* every slot is taken.                                                    *)
(***************************************************************************)
Holding(ts) == {t \in Tasks : ts[t] \in {"running", "returned", "threw"}}

OwnOutcome(t) ==
  /\ (tstate'[t] = "resolved" /\ tstate[t] # "resolved") => tstate[t] = "returned"
  /\ (tstate'[t] = "rejected" /\ tstate[t] # "rejected") =>
        (tstate[t] = "threw" \/ behav'[t] = "sync_throw")
  /\ (tstate[t] = "returned" /\ tstate'[t] # "returned") => tstate'[t] = "resolved"
  /\ (tstate[t] = "threw" /\ tstate'[t] # "threw") => tstate'[t] = "rejected"
  /\ (behav'[t] = "sync_throw" /\ tstate'[t] # "new") =>
        tstate'[t] \in {"queued", "rejected"}

C12_OutcomeAndSlotRelease ==
  /\ [](active = Cardinality(Holding(tstate)))
  /\ [](queue # <<>> => Full(active, max))
  /\ [][\A t \in Tasks : OwnOutcome(t)]_vars

\* With one slot, a task failed and the task that waited behind it runs.
C12_Witness ==
  /\ max = 1
  /\ \E t, u \in Tasks :
       /\ tstate[t] = "rejected" /\ behav[t] = "async"
       /\ u \in waited /\ tstate[u] = "running"
       /\ \A v \in Tasks \ {t, u} : tstate[v] = "new"

(***************************************************************************)
(* C13: at every moment at most one browser process launched by the pool   *)
(* is alive, that is, launched and not yet closed or disconnected.  A      *)
(* browser whose close() has been called is alive until it has shut down.  *)
(***************************************************************************)
AliveBrowsers == {b \in Browsers : bstate[b] \in {"alive", "closing"}}

C13_OneBrowserAlive == Cardinality(AliveBrowsers) <= 1

(***************************************************************************)
(* C14: a disconnect event resets the pool (handle cleared, counter        *)
(* zeroed) only when the browser that disconnected is the current handle;  *)
(* the event of any other browser leaves the handle and its counter as     *)
(* they are.  When the handle is clear and no launch is in flight, the     *)
(* next getBrowser starts a new launch and waits for it.                   *)
(***************************************************************************)
DisconnectEvent(b) == bstate[b] # "dead" /\ bstate'[b] = "dead"

\* Caller c, not waiting, makes a call that leaves it waiting.
CallLeftWaiting(c) == cpc[c] # "waiting" /\ cpc'[c] = "waiting"

C14_DisconnectComparesIdentity ==
  [][ /\ \A b \in Browsers :
          DisconnectEvent(b) =>
            IF browser = b
            THEN browser' = NoBrowser /\ requestCount' = 0
            ELSE browser' = browser /\ requestCount' = requestCount
      /\ \A c \in Callers :
          (CallLeftWaiting(c) /\ browser = NoBrowser /\ launching = NoBrowser) =>
            /\ lstate[launching'] = "unused"
            /\ lstate'[launching'] = "pending"
            /\ cwait'[c] = launching' ]_vars

\* The event of a replaced browser has been met, and the newer handle and
\* its counter are still in place.
C14_Witness ==
  /\ discLog = "stale"
  /\ browser # NoBrowser
  /\ bstate[browser] = "alive"
  /\ requestCount >= 1
  /\ \E b \in Browsers : b # browser /\ bstate[b] = "dead"

(***************************************************************************)
(* C15: once the counter of the current browser has reached the budget,    *)
(* the next getBrowser call does not return that browser and does not      *)
(* count another request on it: it drops it, starts closing it, and waits  *)
(* for a launch made afresh; the browser that launch yields becomes the    *)
(* handle with its counter at 1.                                           *)
(***************************************************************************)
OverBudgetNow == browser # NoBrowser /\ requestCount >= budget

C15_BudgetRecycles ==
  [][ /\ OverBudgetNow =>
          /\ ~(browser' = browser /\ requestCount' = requestCount + 1)
          /\ \A c \in Callers :
               (cpc[c] # "waiting" /\ <<cpc[c], cwait[c], cres[c]>>
                                       # <<cpc'[c], cwait'[c], cres'[c]>>) =>
                 /\ cpc'[c] = "waiting"
                 /\ cres'[c] = NoBrowser
                 /\ browser' = NoBrowser
                 /\ requestCount' = 0
                 /\ bstate'[browser] # "alive"
                 /\ lstate[cwait'[c]] = "unused"
                 /\ lstate'[cwait'[c]] = "pending"
                 /\ launching' = cwait'[c]
      /\ \A l \in Browsers :
          (lstate[l] = "pending" /\ lstate'[l] = "ok") =>
            browser' = l /\ requestCount' = 1 ]_vars

\* With a budget of 2 used up, a caller was handed the replacement while
\* the old browser is still closing.
C15_Witness ==
  /\ budget = 2
  /\ closePc = "idle"
  /\ \E b \in Browsers, c \in Callers :
       /\ bstate[b] = "closing"
       /\ browser # NoBrowser /\ browser # b
       /\ cpc[c] = "got" /\ cwait[c] = browser /\ cres[c] = browser

(***************************************************************************)
(* C16: every browser context created for a scrape is closed on every exit *)
(* path of that scrape, a failure while the context is being configured    *)
(* included: when urlToMarkdown has settled, no context it created is open. *)
(***************************************************************************)
C16_ContextClosedOnExit == scPc = "settled" => scCtx # "open"

(***************************************************************************)
(* C17: for every request of a scrape the route handler makes exactly one  *)
(* call on the route: abort if shouldBlockRequestUrl(url) holds, or the    *)
(* resource type is a blocked one, or the tracker pattern matches the URL, *)
(* and continue otherwise.  The abort of a sub-request leaves the scrape   *)
(* where it is; it fails nothing.                                          *)
(***************************************************************************)
MustAbort(q) ==
  \/ ShouldBlockRequestUrl(q.url)
  \/ q.type \in BLOCKED_TYPES
  \/ q.tracker

C17_OneDecisionPerRequest ==
  /\ [](scReq # NoRequest =>
          /\ Len(scCalls) = 1
          /\ scCalls[1] = (IF MustAbort(scReq) THEN "abort" ELSE "continue"))
  /\ [][(scReq' # scReq /\ scReq' # NoRequest /\ ~scReq'.main) =>
          UNCHANGED <<scPc, scErr, scOut, scCtx>>]_vars
  /\ []((scPc = "settled" /\ scOut = "error" /\ scCtx = "closed") => scErr)

\* The page asked for http://127.0.0.1/... as a script, the handler aborted
\* it, and the scrape returned its Markdown.
C17_Witness ==
  /\ scPc = "settled"
  /\ scOut = "markdown"
  /\ scAborted
  /\ scReq.url.host = V4Host(<<127, 0, 0, 1>>)
  /\ scReq.type = "script"
  /\ ~scReq.tracker
  /\ scCalls = <<"abort">>

(***************************************************************************)
(* C18: the synchronous guard and preflight agree on the synchronous       *)
(* reasons: for every URL string shouldBlockRequestUrl is true exactly     *)
(* when preflightIsUrlAllowed fails with invalid_url, unsupported_protocol, *)
(* blocked_localhost, blocked_private_ip or blocked_private_hostname; with *)
(* a lookup that finds public addresses only, preflight is ok exactly when *)
(* the guard returns false.                                                *)
(***************************************************************************)
SyncReasons ==
  {"invalid_url", "unsupported_protocol", "blocked_localhost",
   "blocked_private_ip", "blocked_private_hostname"}

C18_GuardAgreesWithPreflight ==
  /\ gBlock <=> (~gPre.ok /\ gPre.reason \in SyncReasons)
  /\ gDns = "all_public" => (gPre.ok <=> ~gBlock)

\* http://server.internal: only the last synchronous check matches.
C18_Witness ==
  /\ gUrl = [parsed |-> TRUE, protocol |-> "http:",
             host |-> NameHost(<<"server", "internal">>)]
  /\ gDns = "all_public"
  /\ gBlock
  /\ gPre = Blocked("blocked_private_hostname")

(***************************************************************************)
(* C19: when the URL of a scrape request is rejected by preflight, the     *)
(* `error` field of the response body is the preflight reason itself.      *)
(***************************************************************************)
C19_ErrorIsPreflightReason ==
  (hPc = "responded" /\ hKind = "rejected") => hBody.error = hPre.reason

(***************************************************************************)
(* C20: the status of a scrape response is determined by how the request   *)
(* ended: 400 when the url is missing, 422 when preflight rejected the URL *)
(* (any blocked_* reason, invalid_url, unsupported_protocol), 500 for an   *)
(* internal failure, 200 with {success: true, data} otherwise.             *)
(***************************************************************************)
ClientReasons ==
  SyncReasons \cup {"blocked_private_resolution"}

StatusOf(kind) ==
  CASE kind = "missing_url" -> 400
    [] kind = "rejected" -> 422
    [] kind \in {"failed", "unexpected"} -> 500
    [] kind = "data" -> 200

C21_FastResultSkipsBrowser ==
  scFast => (~scAcquired /\ scPc = "settled" /\ scOut = "markdown")

(***************************************************************************)
(* C22: a scrape whose navigation response has a Content-Type containing   *)
(* application/pdf fails with the error kind unsupported_content_type and  *)
(* is answered with status 422.                                            *)
(***************************************************************************)
C22_PdfIsUnsupportedContentType ==
  (hPc = "responded" /\ hKind = "failed" /\ hBody.detail = PdfMessage) =>
    /\ hBody.error = "unsupported_content_type"
    /\ hStatus = 422

(***************************************************************************)
(* C23: cacheKey is deterministic and insensitive to the order of the      *)
(* top-level keys: two calls with the same prefix and with objects of the  *)
(* same top-level keys and values, inserted in any order, return the same  *)
(* string, and the string is always 24 hex digits.                         *)
(***************************************************************************)
AsMap(o) == {<<o[i].k, o[i].v>> : i \in 1..Len(o)}

C23_KeyDeterministicAnyOrder ==
  /\ (ckA.prefix = ckB.prefix /\ AsMap(ckA.obj) = AsMap(ckB.obj))
       => ckA.key = ckB.key
  /\ ckA.key = CacheKeyOf(ckA.prefix, ckA.obj)
  /\ Len(ckA.key) = 24
  /\ \A i \in 1..Len(ckA.key) : ckA.key[i] \in HexDigits

\* cacheKey(p, {a:1, z:2}) and cacheKey(p, {z:2, a:1})
C23_Witness ==
  /\ ckA.prefix = ckB.prefix
  /\ ckA.obj = <<Prop("a", Num(1)), Prop("z", Num(2))>>
  /\ ckB.obj = <<Prop("z", Num(2)), Prop("a", Num(1))>>
  /\ ckA.key = ckB.key

(***************************************************************************)
(* C24: a different prefix or a different value yields a different key:    *)
(* when the prefixes differ, or the objects differ in some value at any    *)
(* depth, the strings that cacheKey hashes differ.                         *)
(***************************************************************************)
C24_DifferentValueDifferentText ==
  (ckA.prefix # ckB.prefix \/ AsMap(ckA.obj) # AsMap(ckB.obj))
    => ckA.raw # ckB.raw

(***************************************************************************)
(* C25: sanitiser whitelist closure.  Every element of the output of       *)
(* sanitizeForLLM has a tag of the whitelist and carries no attribute but  *)
(* href on A.  The elements that are neither in the removal list nor       *)
(* figures are unwrapped with their text kept in place; of a figure only   *)
(* the content of its caption is kept.                                     *)
(***************************************************************************)
RECURSIVE Flat(_)
Flat(ns) ==
  IF ns = <<>> THEN <<>>
  ELSE <<ns[1]>> \o Flat(ns[1].kids) \o Flat(Tail(ns))

TextOf(ns) ==
  LET texts == SelectSeq(Flat(ns), LAMBDA n : ~IsElement(n))
  IN  [i \in 1..Len(texts) |-> texts[i].text]

Closed(ns) ==
  \A i \in 1..Len(Flat(ns)) :
    LET n == Flat(ns)[i]
    IN  IsElement(n) =>
          /\ n.tag \in Allowed
          /\ n.other = {}
          /\ ~n.marked
          /\ n.href # "none" => n.tag = "A"

\* The text the claim expects: nothing of a listed element, the caption of
\* a figure if `figures`, everything of any other element
RECURSIVE KeptText(_, _)
KeptText(ns, figures) ==
  IF ns = <<>> THEN <<>>
  ELSE LET n == ns[1]
           cap == FirstCaption(RemoveListed(n.kids))
           here == IF ~IsElement(n) THEN <<n.text>>
                   ELSE IF InRemovalList(n) THEN <<>>
                   ELSE IF n.tag = "FIGURE" /\ figures
                   THEN (IF cap = <<>> THEN <<>> ELSE KeptText(cap[1].kids, figures))
                   ELSE KeptText(n.kids, figures)
       IN  here \o KeptText(Tail(ns), figures)

C26_TightenIdempotent == twPc = "twice" => twTwice = twOnce

(***************************************************************************)
(* C27: no HTTP request made for a scrape goes to a URL that               *)
(* shouldBlockRequestUrl blocks: not the GET of the fast fetch, not a      *)
(* redirect it follows, not the navigation of the browser, not a           *)
(* sub-request of the page.                                                *)
(***************************************************************************)
C27_NoRequestToBlockedUrl == scLeak = {}

(***************************************************************************)
(* C28: the pool never closes a browser while a scrape that acquired it is *)
(* in flight: the recycle a getBrowser call performs when the budget is    *)
(* used up does not call close() on a browser that another scrape holds.   *)
(***************************************************************************)
HeldBy(b) == {c \in Callers : cbusy[c] /\ cpc[c] = "got" /\ cres[c] = b}

RecycleCloses(b) ==
  /\ bstate[b] = "alive"
  /\ bstate'[b] = "closing"
  /\ closePc' = closePc

C28_RecycleSparesBusyBrowser ==
  [][\A b \in Browsers : RecycleCloses(b) => HeldBy(b) = {}]_vars

(***************************************************************************)
(* C29: the request counter counts every acquire the current browser       *)
(* served, those that awaited the launch included, so that getBrowser      *)
(* returns no browser handle more often than the budget says.              *)
(***************************************************************************)
C29_ServedWithinBudget ==
  budget >= 1 => \A b \in Browsers : served[b] <= budget

(***************************************************************************)
(* C30: when a browser launch fails, every caller that awaits it receives  *)
(* the error, the pool is back in the state with no browser, no launch in  *)
(* flight and the counter at 0, and the next getBrowser call starts a new  *)
(* launch: it neither returns the failed one nor hangs.                    *)
(***************************************************************************)
LaunchFailed(l) == lstate[l] = "pending" /\ lstate'[l] = "err"

CallReturns(c) == cpc[c] # "waiting" /\ cpc'[c] = "waiting"

C30_LaunchFailureResetsPool ==
  /\ [][\A l \in Browsers :
          LaunchFailed(l) =>
            /\ launching' = NoBrowser
            /\ browser' = NoBrowser
            /\ requestCount' = 0]_vars
  /\ [][\A c \in Callers :
          (cpc[c] = "waiting" /\ lstate[cwait[c]] = "err" /\ cpc'[c] # "waiting")
            => (cpc'[c] = "failed" /\ cres'[c] = NoBrowser)]_vars
  /\ [][\A c \in Callers :
          CallReturns(c) =>
            /\ lstate'[cwait'[c]] = "pending"
            /\ launching' = cwait'[c]]_vars
  /\ [](\A c \in Callers :
          cpc[c] = "waiting" => lstate[cwait[c]] \in {"pending", "ok", "err"})

\* Launch 1 failed and a caller that awaited it got the error; a caller called
\* again and has browser 2.
C30_Witness ==
  /\ lstate[1] = "err"
  /\ lstate[2] = "ok"
  /\ \E c \in Callers : cpc[c] = "failed" /\ cwait[c] = 1
  /\ \E c \in Callers : cpc[c] = "got" /\ cres[c] = 2 /\ cwait[c] = 2
  /\ browser = 2

(***************************************************************************)
(* C31: a task that completes, by success or by failure, releases its slot *)
(* before its outcome propagates: in the state in which the promise of     *)
(* run() is settled, the state its caller observes it in, active has been  *)
(* decremented and the task at the head of the queue, if any, has been     *)
(* started.                                                                *)
(***************************************************************************)
Settles(t) ==
  /\ tstate[t] \notin {"resolved", "rejected"}
  /\ tstate'[t] \in {"resolved", "rejected"}

C31_SlotReleasedBeforeOutcome ==
  [][\A t \in Tasks :
       (Settles(t) /\ tstate[t] \in {"returned", "threw"}) =>
         /\ t \notin Holding(tstate')
         /\ active' = Cardinality(Holding(tstate'))
         /\ active' = Cardinality(Holding(tstate) \ {t})
                       + Cardinality(Holding(tstate') \ Holding(tstate))
         /\ queue # <<>> => tstate'[Head(queue)] # "queued"
         /\ queue' # <<>> => Full(active', max)]_vars

\* With one slot: the first task resolved, the second was started by that
\* and runs, the third still waits.
C31_Witness ==
  /\ max = 1
  /\ queue # <<>>
  /\ active = 1
  /\ \E t \in Tasks : tstate[t] = "resolved"
  /\ \E u \in waited : tstate[u] = "running"
  /\ \E v \in waited : tstate[v] = "queued"

(***************************************************************************)
(* C32: preflight precedes all other work in extractOne: a call whose URL  *)
(* fails preflight neither reads nor writes the cache, does not enter the  *)
(* limiter and starts neither tier of urlToMarkdown, even when a result    *)
(* for its key is cached.                                                  *)
(***************************************************************************)
Rejected(c) ==
  /\ exPc'[c] = "done"
  /\ exResult'[c].error = "blocked_url"
  /\ exPc[c] \in {"idle", "dns"} \/ exInput'[c] # exInput[c]

C32_PreflightBeforeAllWork ==
  [][\A c \in Calls :
       Rejected(c) =>
         /\ UNCHANGED cacheVars
         /\ UNCHANGED <<active, queue, waited, maxSeen>>
         /\ tstate'[c] = "new"
         /\ \A t \in Tasks \ {c} : tstate'[t] = tstate[t]
         /\ exEffect'[c] = "none"
         /\ exStage'[c] = "fast"
         /\ exBody'[c] = NoData]_vars

\* The lookup of a URL found a private address while data of an earlier
\* extraction of the same key was cached.
C32_Witness ==
  \E c \in Calls :
    /\ exPc[c] = "done"
    /\ exResult[c] = ErrorResult("blocked_url", "blocked_private_resolution")
    /\ InputKey(exInput[c]) \in Keys(cmap)
    /\ exGood[InputKey(exInput[c])] # {}
    /\ exEffect[c] = "none"
    /\ tstate[c] = "new"

(***************************************************************************)
(* C33: extractOne calls of one key are not de-duplicated.  A call that    *)
(* passes preflight while another call of its key is still extracting and  *)
(* nothing of the key is on record misses and enters the limiter itself;   *)
(* each call whose extraction succeeds returns its own data; and after it  *)
(* has written, the cache holds exactly one entry of the key, with the     *)
(* data written last.                                                      *)
(***************************************************************************)
SameKeyInFlight(c) ==
  \E d \in Calls \ {c} :
    /\ exPc[d] = "limiter"
    /\ InputKey(exInput[d]) = InputKey(exInput[c])

\* Call c returns from the try block: its extraction resolved.
Succeeds(c) ==
  /\ exPc[c] = "limiter"
  /\ exPc'[c] = "done"
  /\ tstate[c] = "resolved"

EntriesOf(m, k) == {i \in 1..Len(m) : m[i].key = k}

C33_NoDedupLastWriterWins ==
  [][\A c \in Calls :
       /\ (Lookup(c) /\ SameKeyInFlight(c)
              /\ exGood[InputKey(exInput[c])] = {}) =>
            /\ exPc'[c] = "limiter"
            /\ tstate'[c] \in {"queued", "running"}
       /\ Succeeds(c) =>
            /\ exResult'[c] = DataResult(exBody[c])
            /\ \E i \in 1..Len(cmap') :
                 /\ EntriesOf(cmap', InputKey(exInput[c])) = {i}
                 /\ cmap'[i].value = exBody[c]
                 /\ cmap'[i].ts = clock]_vars

\* Two calls of one key overlapped, both extracted, returned different data,
\* and the entry of the key holds the data of the one that wrote last.
C33_Witness ==
  \E c, d \in Calls :
    /\ c # d
    /\ InputKey(exInput[c]) = InputKey(exInput[d])
    /\ Returned(c) /\ Returned(d)
    /\ tstate[c] = "resolved" /\ tstate[d] = "resolved"
    /\ exResult[c].data \in ExData /\ exResult[d].data \in ExData
    /\ exResult[c].data # exResult[d].data
    /\ exEffect[c] = "wrote" /\ exEffect[d] = "wrote"
    /\ \E i \in 1..Len(cmap) :
         /\ EntriesOf(cmap, InputKey(exInput[c])) = {i}
         /\ cmap[i].value = exResult[d].data
         /\ exLast[InputKey(exInput[c])] = exResult[d].data

(***************************************************************************)
(* C34: two scrape requests for one URL that differ only in the order of   *)
(* their formats list have the same extract cache key, and the second is   *)
(* served from the entry the first one wrote.                              *)
(***************************************************************************)
DifferOnlyInFormatOrder(a, b) ==
  /\ a.onlyMainContent = b.onlyMainContent
  /\ a.formats # Absent /\ b.formats # Absent
  /\ Len(a.formats) = Len(b.formats)
  /\ SeqToSet(a.formats) = SeqToSet(b.formats)
  /\ a.formats # b.formats

C34_FormatOrderSameKey ==
  (fmPc = "done" /\ DifferOnlyInFormatOrder(fmReq[1], fmReq[2])) =>
    /\ ExtractKey("https://example.com/a", ScrapeOpts(fmReq[1]))
         = ExtractKey("https://example.com/a", ScrapeOpts(fmReq[2]))
    /\ fmServed = "cache"

(***************************************************************************)
(* C35: no browser is orphaned: every browser that was launched and has    *)
(* neither disconnected nor had close() called on it is the pool's current *)
(* handle, and a step of closeBrowser that clears the handle clears the    *)
(* handle of the browser it closed.                                        *)
(***************************************************************************)
Unclosed == {b \in Browsers : bstate[b] = "alive"}

ClosesOwnHandle ==
  (closePc = "closing" /\ closePc' = "done" /\ browser # NoBrowser) =>
    browser = closeTarget

C35_NoOrphanBrowser ==
  /\ [](\A b \in Unclosed : browser = b)
  /\ [][ClosesOwnHandle]_vars

(***************************************************************************)
(* C36: the limiter is work-conserving and its accounting is exact.  In    *)
(* every state between two synchronous runs of limiter code, active is the *)
(* number of tasks started whose continuation has not run, it lies between *)
(* 0 and max, and a task is queued only while active equals max.           *)
(***************************************************************************)
C36_ExactWorkConserving ==
  /\ active = Cardinality({t \in Tasks : Started(t) /\ ~Settled(t)})
  /\ 0 <= active /\ active <= max
  /\ queue # <<>> => active = max
  /\ \A t \in Tasks :
       tstate[t] = "queued" => (active = max /\ t \in SeqToSet(queue))

\* Both slots are taken, by a body that runs and by one that has finished
\* and whose continuation is due, and the third task waits.
C36_Witness ==
  /\ max = 2
  /\ active = 2
  /\ \E t, u, v \in Tasks :
       /\ tstate[t] = "running"
       /\ tstate[u] \in {"returned", "threw"}
       /\ tstate[v] = "queued"
       /\ queue = <<v>>

(***************************************************************************)
(* C37: the counter of the browser pool: while there is no current browser *)
(* (none, or one being launched) the request counter is 0, and while there *)
(* is one the counter is at least 1 and at most max(budget, 1).            *)
(***************************************************************************)
C37_CounterInvariant ==
  /\ browser = NoBrowser => requestCount = 0
  /\ browser # NoBrowser =>
       (1 <= requestCount /\ requestCount <= MaxOf(budget, 1))

\* The second browser of a pool with budget 2 has been handed out twice,
\* after closeBrowser closed the first one.
C37_Witness ==
  /\ budget = 2
  /\ browser = 2
  /\ requestCount = 2
  /\ closePc = "done"
  /\ bstate[1] = "dead"

(***************************************************************************)
(* C38: for every target URL that passed preflight the request filter lets *)
(* the navigation request of page.goto (resource type document, the URL of *)
(* the target) continue: the route handler never aborts it.                *)
(***************************************************************************)
C38_NavigationNotAborted ==
  /\ scMain # "aborted"
  /\ (scReq # NoRequest /\ scReq.main) => scCalls = <<"continue">>

(***************************************************************************)
(* C39: tryFastFetch never throws.  It returns null exactly when the       *)
(* transport fails (a timeout included), or the Content-Type of the final  *)
(* response does not contain text/html, or the body is shorter than 2000;  *)
(* in every other case it returns the html, the URL and the status of the  *)
(* final response.                                                         *)
(***************************************************************************)
TransportFails(r) == r.transport # "ok"

NotHtml(r) ==
  r.contentType = NoHeader
  \/ \A i \in 1..Len(r.contentType) : r.contentType[i] # "text/html"

C39_FastFetchNullExactlyWhen ==
  ffPc = "returned" =>
    /\ ~ffThrew
    /\ ffOut = Null <=>
         (TransportFails(ffIn) \/ NotHtml(ffIn) \/ ffIn.length < 2000)
    /\ ffOut # Null =>
         /\ ffOut.html = ffIn.length
         /\ ffOut.finalUrl = ffIn.finalUrl
         /\ ffOut.statusCode = ffIn.status

\* A page of exactly 2000 characters, served with status 404 and a charset
\* in its Content-Type, is returned.
C39_Witness ==
  /\ ffPc = "returned"
  /\ ffIn.transport = "ok"
  /\ ffIn.contentType = <<"text/html", "; charset=utf-8">>
  /\ ffIn.length = 2000
  /\ ffIn.status = 404
  /\ ffOut # Null

(***************************************************************************)
(* C40: an unhandled promise rejection or an uncaught exception is logged  *)
(* and does not crash the worker: after the event the process is still     *)
(* running and serves requests.                                            *)
(***************************************************************************)
BackgroundError == Len(prLog') > Len(prLog)

C40_BackgroundErrorsSurvived ==
  [][BackgroundError =>
       /\ prLog' = Append(prLog, prLog'[Len(prLog')])
       /\ prState' = "running"
       /\ prCode' = -1]_vars

====
